---- MODULE Spec2Model ----
(***************************************************************************)
(* Model of the smol generation workflow: the durable Workflow.run state   *)
(* machine, the song acquisition strategy (decideSongsStrategy), the       *)
(* polling coordinator (pollUntilComplete / pollSongs), swap detection     *)
(* (detectAndCorrectSwaps), the song matcher (matchSongsByFingerprint),    *)
(* the fingerprint extractor (extractFingerprint) and the per-run Durable  *)
(* Object step store (SmolDurableObject).                                  *)
(*                                                                         *)
(* Every step.do attempt is one atomic action.  The environment (the AI    *)
(* collaborators, the song provider, the audio host) is nondeterministic:  *)
(* each action draws the collaborator's answer from a small set.           *)
(***************************************************************************)
EXTENDS Integers, Sequences, FiniteSets, TLC

\* ------------------------------------------------------------------------
\* Identifiers
\* ------------------------------------------------------------------------

\* r0 is a run started by POST /, r1 and r2 are runs started by
\* POST /retry/r0 (each gets its own newUniqueId()).
Runs == {"r0", "r1", "r2"}

RetryRuns == {"r1", "r2"}

\* the run a retry run names in payload.retry_id ("" for a fresh run)
RetryOf(r) == IF r \in RetryRuns THEN "r0" ELSE ""

\* a stub that addresses the Durable Object of the run being retried
StubOfRetried(r) == IF RetryOf(r) # "" THEN RetryOf(r) ELSE r

\* the Durable Object every saveStep of run r goes to: the one named by the
\* run's own instance id
Stub(r) == r

\* song ids the provider assigns to the generation request of each run
GenIds(r) == CASE r = "r0" -> <<"A", "B">>
               [] r = "r1" -> <<"C", "D">>
               [] OTHER    -> <<"E", "F">>

MusicIds == {"A", "B", "C", "D", "E", "F"}

\* audio URLs; NoUrl is the empty / missing audio field
NoUrl == ""

Urls == {"u1", "u2", "u3", "u4"}

\* audio content served at a URL: u1 and u3 serve content X, u2 and u4 content Y
Content(u) == IF u \in {"u1", "u3"} THEN "X" ELSE "Y"

\* duration (seconds) that music-metadata parses out of a content
Dur(c) == IF c = "X" THEN 100 ELSE 200

\* ------------------------------------------------------------------------
\* Program constants
\* ------------------------------------------------------------------------

FINGERPRINT_MIN_BYTES == 32768

DefaultHashBytes == 16384

MAX_FINGERPRINT_ATTEMPTS == 5

\* marker for an omitted optional number argument (undefined)
Undef == 0 - 1

Min2(a, b) == IF a < b THEN a ELSE b

Abs(x) == IF x < 0 THEN 0 - x ELSE x

SetMin(S) == CHOOSE x \in S : \A y \in S : x <= y

\* ------------------------------------------------------------------------
\* The audio host.  One fetch of a URL has one of these outcomes:
\*   "err"    the fetch fails (network error, timeout, non-2xx)
\*   "empty"  0 bytes are available
\*   "short"  ShortLen bytes are available (still buffering), no metadata
\*   "nometa" the full range is available, metadata parsing fails
\*   "full"   the full range is available, metadata parses
\* ------------------------------------------------------------------------

ShortLen == 10000

FullLen == 32769

DataLen(o) == CASE o = "empty" -> 0
                [] o = "short" -> ShortLen
                [] OTHER       -> FullLen

\* extractFingerprint(audioUrl, maxAudioBytes, minBytes) when the fetch of
\* audioUrl has outcome o.  The SHA-256 of a byte window is modelled by the
\* pair <<content, number of bytes hashed>>: two windows hash alike exactly
\* when they hold the same content over the same number of bytes.
\* The result is [kind |-> "err" | "insufficient" | "null" | "fp", fp |-> ...].
NoFp == [hash |-> <<"", 0>>, byteLength |-> 0, duration |-> 0]

extractFingerprint(audioUrl, maxAudioBytes, minBytes, o) ==
    LET min == IF minBytes = Undef THEN FINGERPRINT_MIN_BYTES ELSE minBytes
        len == DataLen(o)
        bytesToHash == IF maxAudioBytes = Undef THEN DefaultHashBytes ELSE maxAudioBytes
        n   == Min2(bytesToHash, len)
    IN  IF audioUrl = NoUrl \/ o = "err" THEN [kind |-> "err", fp |-> NoFp]
        ELSE IF len < min THEN [kind |-> "insufficient", fp |-> NoFp]
        ELSE IF len = 0 THEN [kind |-> "null", fp |-> NoFp]
        ELSE [kind |-> "fp",
              fp |-> [hash |-> <<Content(audioUrl), n>>, byteLength |-> n,
                      duration |-> IF o = "full" THEN Dur(Content(audioUrl)) ELSE Undef]]

\* ------------------------------------------------------------------------
\* Song Matcher
\* ------------------------------------------------------------------------

\* A Record<string, AudioFingerprint> is a sequence of [k, fp] entries in
\* insertion order, which is the order Object.keys() yields for keys that
\* are not canonical array indices.
Keys(m) == [i \in 1..Len(m) |-> m[i].k]

HasKey(m, k) == \E i \in 1..Len(m) : m[i].k = k

Lookup(m, k) == m[CHOOSE i \in 1..Len(m) : m[i].k = k].fp

\* the outcome of fetching u; there is nothing to fetch without a URL
FxAt(fx, u) == IF u = NoUrl THEN "err" ELSE fx[u]

SeqFilter(s, Keep(_)) ==
    LET F[i \in 0..Len(s)] ==
          IF i = 0 THEN <<>>
          ELSE IF Keep(s[i]) THEN Append(F[i - 1], s[i]) ELSE F[i - 1]
    IN  F[Len(s)]

\* primary pass, one original: index of the first not-yet-matched candidate
\* with audio whose hash over the original's byteLength equals the original's
\* hash (0 when there is none); a failed or null fingerprint is skipped
HashMatches(streamingFp, audio, o) ==
    LET e == extractFingerprint(audio, streamingFp.byteLength, 0, o)
    IN  e.kind = "fp" /\ e.fp.hash = streamingFp.hash

FirstHashMatch(streamingFp, completeSongs, matched, fx) ==
    LET S == {j \in 1..Len(completeSongs) :
                /\ completeSongs[j].music_id \notin matched
                /\ completeSongs[j].audio # NoUrl
                /\ HashMatches(streamingFp, completeSongs[j].audio, fx[completeSongs[j].audio])}
    IN  IF S = {} THEN 0 ELSE SetMin(S)

\* a primary pass that reports an exchange for every hash match
PrimaryStepAlwaysSwapped(a, musicId, completeSongs, j) ==
    IF j = 0 THEN a
    ELSE [result  |-> Append(a.result, [completeSongs[j] EXCEPT !.music_id = musicId]),
          matched |-> a.matched \cup {completeSongs[j].music_id},
          swapped |-> TRUE]

\* primary pass over all originals in key order
PrimaryStep(a, musicId, completeSongs, j) ==
    IF j = 0 THEN a
    ELSE [result  |-> Append(a.result, [completeSongs[j] EXCEPT !.music_id = musicId]),
          matched |-> a.matched \cup {completeSongs[j].music_id},
          swapped |-> a.swapped \/ completeSongs[j].music_id # musicId]

PrimaryPass(streamingFingerprints, completeSongs, fx) ==
    LET P[i \in 0..Len(streamingFingerprints)] ==
          IF i = 0 THEN [result |-> <<>>, matched |-> {}, swapped |-> FALSE]
          ELSE PrimaryStep(P[i - 1], streamingFingerprints[i].k, completeSongs,
                           FirstHashMatch(streamingFingerprints[i].fp, completeSongs,
                                          P[i - 1].matched, fx))
    IN  P[Len(streamingFingerprints)]

\* fallback for edge cases: every unmatched id keeps the candidate that
\* carries that id, when there is one
FallbackPass(result, unmatchedIds, completeSongs) ==
    LET F[i \in 0..Len(unmatchedIds)] ==
          IF i = 0 THEN result
          ELSE LET S == {j \in 1..Len(completeSongs) : completeSongs[j].music_id = unmatchedIds[i]}
               IN  IF S = {} THEN F[i - 1] ELSE Append(F[i - 1], completeSongs[SetMin(S)])
    IN  F[Len(unmatchedIds)]

\* duration ?? 0
OrZero(duration) == IF duration = Undef THEN 0 ELSE duration

\* secondary matching of two unmatched ids against two unmatched candidates
\* whose default fingerprints are e1 and e2: the exchanged assignment is
\* taken when its summed duration distance is strictly smaller
DurationMatch(streamingFingerprints, p, unmatchedIds, unmatchedComplete, e1, e2) ==
    LET sd1 == OrZero(Lookup(streamingFingerprints, unmatchedIds[1]).duration)
        sd2 == OrZero(Lookup(streamingFingerprints, unmatchedIds[2]).duration)
        cd1 == OrZero(e1.fp.duration)
        cd2 == OrZero(e2.fp.duration)
        originalDiff == Abs(sd1 - cd1) + Abs(sd2 - cd2)
        swappedDiff  == Abs(sd1 - cd2) + Abs(sd2 - cd1)
    IN  IF e1.kind = "fp" /\ e2.kind = "fp" /\ swappedDiff < originalDiff
        THEN [result  |-> p.result \o <<[unmatchedComplete[2] EXCEPT !.music_id = unmatchedIds[1]],
                                        [unmatchedComplete[1] EXCEPT !.music_id = unmatchedIds[2]]>>,
              swapped |-> TRUE]
        ELSE [result  |-> p.result \o <<[unmatchedComplete[1] EXCEPT !.music_id = unmatchedIds[1]],
                                        [unmatchedComplete[2] EXCEPT !.music_id = unmatchedIds[2]]>>,
              swapped |-> p.swapped]

\* what follows the primary pass p
SecondaryPass(streamingFingerprints, completeSongs, fx, p, unmatchedIds, unmatchedComplete) ==
    IF Len(unmatchedIds) = 2 /\ Len(unmatchedComplete) = 2
    THEN DurationMatch(streamingFingerprints, p, unmatchedIds, unmatchedComplete,
                       extractFingerprint(unmatchedComplete[1].audio, Undef, Undef,
                                          FxAt(fx, unmatchedComplete[1].audio)),
                       extractFingerprint(unmatchedComplete[2].audio, Undef, Undef,
                                          FxAt(fx, unmatchedComplete[2].audio)))
    ELSE IF Len(unmatchedIds) > 0
    THEN [result |-> FallbackPass(p.result, unmatchedIds, completeSongs), swapped |-> p.swapped]
    ELSE [result |-> p.result, swapped |-> p.swapped]

\* the return statement: the assembled result only when it has as many
\* entries as there are candidates
MatchReturn(completeSongs, out) ==
    [songs   |-> IF Len(out.result) = Len(completeSongs) THEN out.result ELSE completeSongs,
     swapped |-> out.swapped]

ResultIds(result) == {result[i].music_id : i \in 1..Len(result)}

MatchAfterPrimary(streamingFingerprints, completeSongs, fx, p) ==
    MatchReturn(completeSongs,
                SecondaryPass(streamingFingerprints, completeSongs, fx, p,
                              SeqFilter(Keys(streamingFingerprints),
                                        LAMBDA id : id \notin ResultIds(p.result)),
                              SeqFilter(completeSongs, LAMBDA s : s.music_id \notin p.matched)))

\* a matcher that finds the exchange but hands the candidates back as given
matchSongsByFingerprintNoReassign(streamingFingerprints, completeSongs, fx) ==
    [songs |-> completeSongs, swapped |-> PrimaryPass(streamingFingerprints, completeSongs, fx).swapped]

matchSongsByFingerprint(streamingFingerprints, completeSongs, fx) ==
    MatchAfterPrimary(streamingFingerprints, completeSongs, fx,
                      PrimaryPass(streamingFingerprints, completeSongs, fx))

\* ------------------------------------------------------------------------
\* State
\* ------------------------------------------------------------------------

VARIABLES
    pc,        \* [Runs -> position of the run in Workflow.run]
    att,       \* [Runs -> failed attempts of the step the run is at]
    loc,       \* [Runs -> local variables of Workflow.run]
    store,     \* [Runs -> ctx.storage of the run's SmolDurableObject]
    toFlush,   \* runs whose Durable Object was marked by setToFlush()
    d1,        \* [Runs -> <<>> or <<row of Smols>>]
    playlists, \* rows <<Id, Title>> of Playlists
    kv,        \* [Runs -> <<>> or <<value of SMOL_KV>>]
    mp3,       \* [MusicIds -> content of SMOL_BUCKET `${music_id}.mp3`, "" if absent]
    png,       \* runs r with SMOL_BUCKET `${r}.png`
    prov,      \* [Runs -> what the song provider holds for the songs of GenIds(r)]
    called,    \* [Runs -> collaborators the run has called]
    obs        \* [Runs -> record of the run's last poll and last match() call]

vars == <<pc, att, loc, store, toFlush, d1, playlists, kv, mp3, png, prov, called, obs>>

\* ------------------------------------------------------------------------
\* Values
\* ------------------------------------------------------------------------

Song(id, status, audio) == [music_id |-> id, status |-> status, audio |-> audio]

\* WorkflowParams; "" stands for an absent field
NoPayload == [address |-> "", prompt |-> "", retry_id |-> "", public |-> "", playlist |-> ""]

\* AiSongGeneratorLyrics as far as the workflow inspects it; by = "" is undefined
NoLyrics == [by |-> "", title |-> FALSE, lyrics |-> FALSE, styles |-> 0]

GoodLyrics(r) == [by |-> r, title |-> TRUE, lyrics |-> TRUE, styles |-> 2]

\* what generateLyrics can answer
LyricsAnswers(r) ==
    { GoodLyrics(r),
      [GoodLyrics(r) EXCEPT !.title = FALSE],
      [GoodLyrics(r) EXCEPT !.lyrics = FALSE],
      [GoodLyrics(r) EXCEPT !.styles = 1],
      [GoodLyrics(r) EXCEPT !.styles = 0] }

\* NSFW verdict: a raw string or {safe, categories}; kind = "none" is undefined
NoNsfw == [by |-> "", kind |-> "none"]

NsfwKinds == {"string", "safe", "unsafe"}

NoUrls == [m \in MusicIds |-> NoUrl]

NoAttempts == [m \in MusicIds |-> 0]

\* ctx.storage of a Durable Object with nothing stored (getSteps() = {})
EmptySteps ==
    [payload |-> NoPayload, image_base64 |-> "", description |-> "",
     lyrics |-> NoLyrics, nsfw |-> NoNsfw, song_ids |-> <<>>, songs |-> <<>>,
     original_fingerprints |-> <<>>, last_known_urls |-> NoUrls,
     fingerprint_attempts |-> NoAttempts]

NoLocals ==
    [retry_steps |-> EmptySteps, payload |-> NoPayload, image_base64 |-> "",
     description |-> "", lyrics |-> NoLyrics, nsfw |-> NoNsfw, song_ids |-> <<>>,
     songs |-> <<>>, source |-> "", reused |-> "", playlist |-> ""]

\* nothing observed yet: see Observe below; quick is how the quick recheck
\* of a retry run went
NoMatch == [called |-> FALSE, fps |-> <<>>, cands |-> <<>>, hashes |-> <<>>,
            songs |-> <<>>, swapped |-> FALSE]

NoObs == [polled |-> FALSE, mode |-> "", negative |-> FALSE, audio |-> FALSE,
          detect |-> "", outcome |-> "", snapshot |-> FALSE, songs |-> <<>>,
          match |-> NoMatch, quick |-> "", first |-> <<>>]

NoCalls ==
    [image |-> FALSE, describe |-> FALSE, lyrics |-> FALSE, nsfw |-> FALSE,
     generate |-> 0, status |-> 0, rejected |-> NoLyrics]

\* ------------------------------------------------------------------------
\* Step retry policy (WorkflowStepConfig): a step with retries.limit = n is
\* attempted at most n + 1 times
\* ------------------------------------------------------------------------

ConfigLimit == 5

ImageLimit == 6

StreamingLimit == 5

CompleteLimit == 6

\* counters of collaborator calls saturate here
CallCap == 2

Bump(n) == IF n < CallCap THEN n + 1 ELSE n

\* an engine that grants every step one attempt more
StepFailsOnceMore(r, limit, exhausted) ==
    IF att[r] < limit + 1
    THEN /\ att' = [att EXCEPT ![r] = @ + 1]
         /\ pc' = pc
    ELSE /\ att' = [att EXCEPT ![r] = 0]
         /\ pc' = [pc EXCEPT ![r] = exhausted]

\* the attempt of the step at pc[r] failed with an ordinary (retryable) error
StepFails(r, limit, exhausted) ==
    IF att[r] < limit
    THEN /\ att' = [att EXCEPT ![r] = @ + 1]
         /\ pc' = pc
    ELSE /\ att' = [att EXCEPT ![r] = 0]
         /\ pc' = [pc EXCEPT ![r] = exhausted]

\* the step at pc[r] succeeded; the run moves on to position next
StepDone(r, next) ==
    /\ att' = [att EXCEPT ![r] = 0]
    /\ pc' = [pc EXCEPT ![r] = next]

\* ------------------------------------------------------------------------
\* SmolDurableObject.saveStep side effects
\* ------------------------------------------------------------------------

\* saveStep('songs', data) after ctx.storage.put: every song with audio and
\* status >= 4 whose mp3 is not yet in the bucket is fetched and stored under
\* its music_id.  getOk = FALSE: the fetch of the first such song fails and
\* saveStep throws.  Result: [mp3 |-> bucket afterwards, ok |-> no throw].
SaveSongsBlobs(bucket, data, getOk) ==
    LET F[i \in 0..Len(data)] ==
          IF i = 0 THEN [mp3 |-> bucket, ok |-> TRUE]
          ELSE LET a == F[i - 1]
                   song == data[i]
               IN  IF ~a.ok \/ song.audio = NoUrl \/ song.status < 4
                      \/ a.mp3[song.music_id] # ""
                   THEN a
                   ELSE IF getOk
                        THEN [a EXCEPT !.mp3[song.music_id] = Content(song.audio)]
                        ELSE [a EXCEPT !.ok = FALSE]
    IN  F[Len(data)]

\* the same when the fetch for the first song succeeds where it is needed
\* and the first fetch needed for a later song fails
SaveSongsBlobsLater(bucket, data) ==
    SaveSongsBlobs(SaveSongsBlobs(bucket, <<data[1]>>, TRUE).mp3, Tail(data), FALSE)

\* ------------------------------------------------------------------------
\* Swap detection
\* ------------------------------------------------------------------------

\* lastKnownUrls rebuilt from a song list (later entries overwrite earlier)
RebuildUrls(songs) ==
    LET F[i \in 0..Len(songs)] ==
          IF i = 0 THEN NoUrls
          ELSE IF songs[i].audio # NoUrl
               THEN [F[i - 1] EXCEPT ![songs[i].music_id] = songs[i].audio]
               ELSE F[i - 1]
    IN  F[Len(songs)]

\* the per-song loop of detectAndCorrectSwaps; kind # "ok" means the loop
\* threw at some song and nothing after that song was executed
FingerprintStep(a, song, e) ==
    LET id == song.music_id
        lastUrl == a.urls[id]
        isNewUrl == lastUrl = NoUrl \/ lastUrl # song.audio
    IN  IF a.kind # "ok" \/ song.audio = NoUrl \/ ~isNewUrl THEN a
        ELSE IF e.kind = "insufficient"
        THEN [a EXCEPT !.kind = "insufficient", !.atts[id] = @ + 1, !.urlsChanged = TRUE]
        ELSE IF e.kind = "err"
        THEN [a EXCEPT !.kind = "err", !.urlsChanged = TRUE]
        ELSE [kind |-> "ok",
              fps  |-> IF e.kind = "fp" /\ ~HasKey(a.fps, id)
                       THEN Append(a.fps, [k |-> id, fp |-> e.fp])
                       ELSE a.fps,
              urls |-> [a.urls EXCEPT ![id] = song.audio],
              atts |-> IF e.kind = "fp" THEN [a.atts EXCEPT ![id] = 0] ELSE a.atts,
              stateChanged |-> TRUE,
              urlsChanged  |-> TRUE]

\* a capture that never lowers the minimum
CaptureMinBytesDefault(attempts) == Undef

\* minBytes of the capture: 0 on the last attempt, the default before
CaptureMinBytes(attempts) ==
    IF attempts >= MAX_FINGERPRINT_ATTEMPTS - 1 THEN 0 ELSE Undef

FingerprintLoop(steps, songs, fx) ==
    LET L[i \in 0..Len(songs)] ==
          IF i = 0
          THEN [kind |-> "ok", fps |-> steps.original_fingerprints,
                urls |-> steps.last_known_urls, atts |-> steps.fingerprint_attempts,
                stateChanged |-> FALSE, urlsChanged |-> FALSE]
          ELSE FingerprintStep(L[i - 1], songs[i],
                               extractFingerprint(songs[i].audio, Undef,
                                                  CaptureMinBytes(L[i - 1].atts[songs[i].music_id]),
                                                  FxAt(fx, songs[i].audio)))
    IN  L[Len(songs)]

\* the hashes match() computes for the candidates against each original, kept
\* for the record of the call: hashes[i][j] is TRUE when candidate j hashed
\* over original i's byteLength equals original i's hash
HashTable(fps, cands, fx) ==
    [i \in 1..Len(fps) |->
        [j \in 1..Len(cands) |-> HashMatches(fps[i].fp, cands[j].audio, FxAt(fx, cands[j].audio))]]

MatchRecord(fps, cands, fx, out) ==
    [called |-> TRUE, fps |-> fps, cands |-> cands, hashes |-> HashTable(fps, cands, fx),
     songs |-> out.songs, swapped |-> out.swapped]

\* detectAndCorrectSwaps(stub, songs) on the stored steps.  Result:
\*   kind   "ok", or "insufficient" / "err" when it throws
\*   songs  the (possibly reordered) list it returns
\*   steps  the stored steps afterwards
\*   match  the record of the match() call it made, if any
\*   captured  originalFingerprints as the per-song loop left it in memory
\* a return that persists the URLs as the loop left them, also after a
\* corrected swap
DetectReturnLoopUrls(steps, songs, fx, l, doMatch, m) ==
    [kind  |-> l.kind,
     captured |-> l.fps,
     songs |-> IF doMatch /\ m.swapped THEN m.songs ELSE songs,
     steps |-> IF l.kind = "insufficient"
               THEN [steps EXCEPT !.fingerprint_attempts = l.atts]
               ELSE IF l.kind = "ok" /\ (l.stateChanged \/ (doMatch /\ m.swapped))
               THEN [steps EXCEPT !.original_fingerprints = l.fps,
                                  !.last_known_urls = l.urls,
                                  !.fingerprint_attempts = l.atts]
               ELSE steps,
     match |-> IF doMatch THEN MatchRecord(l.fps, songs, fx, m) ELSE NoMatch]

DetectReturn(steps, songs, fx, l, doMatch, m) ==
    [kind  |-> l.kind,
     captured |-> l.fps,
     songs |-> IF doMatch /\ m.swapped THEN m.songs ELSE songs,
     steps |-> IF l.kind = "insufficient"
               THEN [steps EXCEPT !.fingerprint_attempts = l.atts]
               ELSE IF l.kind = "ok" /\ (l.stateChanged \/ (doMatch /\ m.swapped))
               THEN [steps EXCEPT !.original_fingerprints = l.fps,
                                  !.last_known_urls = IF doMatch /\ m.swapped
                                                      THEN RebuildUrls(m.songs) ELSE l.urls,
                                  !.fingerprint_attempts = l.atts]
               ELSE steps,
     match |-> IF doMatch THEN MatchRecord(l.fps, songs, fx, m) ELSE NoMatch]

\* a detection that calls match() whenever there are two originals
DetectAfterLoopAlways(steps, songs, fx, l) ==
    DetectReturn(steps, songs, fx, l,
                 l.kind = "ok" /\ Len(l.fps) = 2,
                 matchSongsByFingerprint(l.fps, songs, fx))

\* after the per-song loop l: match() runs when a URL changed and there are
\* exactly two original fingerprints
DetectAfterLoop(steps, songs, fx, l) ==
    DetectReturn(steps, songs, fx, l,
                 l.kind = "ok" /\ l.urlsChanged /\ Len(l.fps) = 2,
                 matchSongsByFingerprint(l.fps, songs, fx))

detectAndCorrectSwaps(steps, songs, fx) ==
    DetectAfterLoop(steps, songs, fx, FingerprintLoop(steps, songs, fx))

\* ------------------------------------------------------------------------
\* Starting runs (src/api/smols.ts)
\* ------------------------------------------------------------------------

\* POST /: the handler rejects a missing address or prompt and defaults public
\* and passes body.playlist on; run() takes retry_id and playlist from the
\* event payload before any merge
PostSmol(r, pub, playlist) ==
    /\ r = "r0"
    /\ pc[r] = "idle"
    /\ pc' = [pc EXCEPT ![r] = "validate"]
    /\ loc' = [loc EXCEPT ![r].payload =
                 [NoPayload EXCEPT !.address = "a0", !.prompt = "p0", !.public = pub,
                                   !.playlist = playlist],
                           ![r].playlist = playlist]
    /\ UNCHANGED <<att, store, toFlush, d1, playlists, kv, mp3, png, prov, called, obs>>

\* POST /retry/:id: the new run gets only retry_id and the caller's address
RetryParams(r) == [NoPayload EXCEPT !.address = "a1", !.retry_id = RetryOf(r)]

PostRetry(r) ==
    /\ r \in RetryRuns
    /\ pc[r] = "idle"
    /\ pc' = [pc EXCEPT ![r] = "retryLoad"]
    /\ loc' = [loc EXCEPT ![r].payload = RetryParams(r),
                           ![r].playlist = RetryParams(r).playlist]
    /\ UNCHANGED <<att, store, toFlush, d1, playlists, kv, mp3, png, prov, called, obs>>

\* ------------------------------------------------------------------------
\* Workflow.run, steps 1 to 5
\* ------------------------------------------------------------------------

\* a merge in which the fields of the new payload override
MergePayloadNewWins(payload, previous) ==
    [f \in DOMAIN payload |-> IF payload[f] # "" THEN payload[f] ELSE previous[f]]

\* { ...payload, ...retry_steps?.payload }: a field the previous payload has
\* overrides the field of the new payload
MergePayload(payload, previous) ==
    [f \in DOMAIN payload |-> IF previous[f] # "" THEN previous[f] ELSE payload[f]]

\* The JSON saveStep('lyrics') puts in SMOL_KV is the lyrics object itself.
\* Read as WorkflowSteps its only field in common is `lyrics`, which then is
\* the lyrics text: a truthy string without title or style.
LyricsBlob(l) == [EmptySteps EXCEPT !.lyrics = [NoLyrics EXCEPT !.by = l.by]]

\* what SMOL_KV.get(retry_id, 'json') yields read as WorkflowSteps
KvSteps(id) == IF kv[id] = <<>> THEN EmptySteps ELSE kv[id][1].steps

\* a retry load that empties the store it has read
RetryLoadFlushing(r, faults) ==
    /\ pc[r] = "retryLoad"
    /\ loc' = [loc EXCEPT ![r].retry_steps = store[RetryOf(r)],
                          ![r].payload = MergePayload(@, store[RetryOf(r)].payload)]
    /\ StepDone(r, "validate")
    /\ store' = [store EXCEPT ![RetryOf(r)] = EmptySteps]
    /\ UNCHANGED <<toFlush, d1, playlists, kv, mp3, png, prov, called, obs>>

\* step 'retry workflow'
RetryLoad(r, faults) ==
    /\ pc[r] = "retryLoad"
    /\ \/ \* getSteps() of the superseded run's Durable Object answers
          /\ loc' = [loc EXCEPT ![r].retry_steps = store[RetryOf(r)],
                                ![r].payload = MergePayload(@, store[RetryOf(r)].payload)]
          /\ StepDone(r, "validate")
       \/ \* it throws: fallback to the archived KV record
          /\ loc' = [loc EXCEPT ![r].retry_steps = KvSteps(RetryOf(r)),
                                ![r].payload = MergePayload(@, KvSteps(RetryOf(r)).payload)]
          /\ StepDone(r, "validate")
       \/ \* both lookups throw
          /\ "pipeline" \in faults
          /\ StepFails(r, ConfigLimit, "failed")
          /\ UNCHANGED loc
    /\ UNCHANGED <<store, toFlush, d1, playlists, kv, mp3, png, prov, called, obs>>

\* a validation that checks the address only
ValidateAddressOnly(r) ==
    /\ pc[r] = "validate"
    /\ pc' = [pc EXCEPT ![r] = IF loc[r].payload.address = ""
                               THEN "aborted" ELSE "savePayload"]
    /\ UNCHANGED <<att, loc, store, toFlush, d1, playlists, kv, mp3, png, prov, called, obs>>

\* the address / prompt checks between 'retry workflow' and 'save payload'
Validate(r) ==
    /\ pc[r] = "validate"
    /\ pc' = [pc EXCEPT ![r] = IF loc[r].payload.address = "" \/ loc[r].payload.prompt = ""
                               THEN "aborted" ELSE "savePayload"]
    /\ UNCHANGED <<att, loc, store, toFlush, d1, playlists, kv, mp3, png, prov, called, obs>>

\* a save step that moves on without having written
SaveAttemptSkipped(r, at, next, newSteps, faults) ==
    /\ pc[r] = at
    /\ StepDone(r, next)
    /\ UNCHANGED store

\* a step.do whose callback is stub.saveStep(field, value) with no side effect
\* beyond ctx.storage.put
SaveAttempt(r, at, next, newSteps, faults) ==
    /\ pc[r] = at
    /\ \/ /\ store' = [store EXCEPT ![Stub(r)] = newSteps]
          /\ StepDone(r, next)
       \/ /\ "pipeline" \in faults
          /\ StepFails(r, ConfigLimit, "failed")
          /\ UNCHANGED store

SavePayload(r, faults) ==
    /\ SaveAttempt(r, "savePayload", "genImage", [store[r] EXCEPT !.payload = loc[r].payload], faults)
    /\ UNCHANGED <<loc, toFlush, d1, playlists, kv, mp3, png, prov, called, obs>>

\* retry_steps?.image_base64 || step.do('generate image')
GenerateImage(r, faults) ==
    /\ pc[r] = "genImage"
    /\ IF loc[r].retry_steps.image_base64 # ""
       THEN /\ loc' = [loc EXCEPT ![r].image_base64 = loc[r].retry_steps.image_base64]
            /\ StepDone(r, "saveImage")
            /\ UNCHANGED called
       ELSE /\ called' = [called EXCEPT ![r].image = TRUE]
            /\ \/ /\ loc' = [loc EXCEPT ![r].image_base64 = r]
                  /\ StepDone(r, "saveImage")
               \/ /\ "pipeline" \in faults
                  /\ StepFails(r, ImageLimit, "failed")
                  /\ UNCHANGED loc
    /\ UNCHANGED <<store, toFlush, d1, playlists, kv, mp3, png, prov, obs>>

\* step 'save generated image': saveStep also puts `${id}.png` in the bucket
SaveImage(r, faults) ==
    /\ pc[r] = "saveImage"
    /\ \/ /\ store' = [store EXCEPT ![Stub(r)].image_base64 = loc[r].image_base64]
          /\ png' = png \cup {r}
          /\ StepDone(r, "describe")
       \/ /\ "pipeline" \in faults
          /\ StepFails(r, ConfigLimit, "failed")
          /\ UNCHANGED <<store, png>>
    /\ UNCHANGED <<loc, toFlush, d1, playlists, kv, mp3, prov, called, obs>>

\* a describe step that asks the collaborator whatever the loaded state holds
DescribeImageAlways(r, faults) ==
    /\ pc[r] = "describe"
    /\ called' = [called EXCEPT ![r].describe = TRUE]
    /\ loc' = [loc EXCEPT ![r].description = r]
    /\ StepDone(r, "saveDescription")
    /\ UNCHANGED <<store, toFlush, d1, playlists, kv, mp3, png, prov, obs>>

\* retry_steps?.description || step.do('describe image')
DescribeImage(r, faults) ==
    /\ pc[r] = "describe"
    /\ IF loc[r].retry_steps.description # ""
       THEN /\ loc' = [loc EXCEPT ![r].description = loc[r].retry_steps.description]
            /\ StepDone(r, "saveDescription")
            /\ UNCHANGED called
       ELSE /\ called' = [called EXCEPT ![r].describe = TRUE]
            /\ \/ /\ loc' = [loc EXCEPT ![r].description = r]
                  /\ StepDone(r, "saveDescription")
               \/ /\ "pipeline" \in faults
                  /\ StepFails(r, ConfigLimit, "failed")
                  /\ UNCHANGED loc
    /\ UNCHANGED <<store, toFlush, d1, playlists, kv, mp3, png, prov, obs>>

SaveDescription(r, faults) ==
    /\ SaveAttempt(r, "saveDescription", "genLyrics", [store[r] EXCEPT !.description = loc[r].description], faults)
    /\ UNCHANGED <<loc, toFlush, d1, playlists, kv, mp3, png, prov, called, obs>>

\* a check that is content with one style tag
LyricsCompleteLenient(l) == l.title /\ l.lyrics /\ l.styles >= 1

LyricsComplete(l) == l.title /\ l.lyrics /\ l.styles >= 2

\* the callback of 'generate lyrics' once generateLyrics answered l: an
\* incomplete answer throws an ordinary Error inside the step
LyricsAnswered(r, l) ==
    IF LyricsComplete(l)
    THEN /\ called' = [called EXCEPT ![r].lyrics = TRUE]
         /\ loc' = [loc EXCEPT ![r].lyrics = l]
         /\ StepDone(r, "saveLyrics")
    ELSE /\ called' = [called EXCEPT ![r].lyrics = TRUE, ![r].rejected = l]
         /\ StepFails(r, ConfigLimit, "failed")
         /\ UNCHANGED loc

\* retry_steps?.lyrics || step.do('generate lyrics'); "lyrics" in faults:
\* generateLyrics may answer incompletely, "pipeline": it may throw
GenerateLyrics(r, faults) ==
    /\ pc[r] = "genLyrics"
    /\ IF loc[r].retry_steps.lyrics.by # ""
       THEN /\ loc' = [loc EXCEPT ![r].lyrics = loc[r].retry_steps.lyrics]
            /\ StepDone(r, "saveLyrics")
            /\ UNCHANGED called
       ELSE \/ \E l \in LyricsAnswers(r) :
                 /\ l = GoodLyrics(r) \/ "lyrics" \in faults
                 /\ LyricsAnswered(r, l)
            \/ /\ "pipeline" \in faults
               /\ called' = [called EXCEPT ![r].lyrics = TRUE]
               /\ StepFails(r, ConfigLimit, "failed")
               /\ UNCHANGED loc
    /\ UNCHANGED <<store, toFlush, d1, playlists, kv, mp3, png, prov, obs>>

\* step 'save generated lyrics': saveStep also puts the lyrics JSON in
\* SMOL_KV under the run's id
SaveLyrics(r, faults) ==
    /\ pc[r] = "saveLyrics"
    /\ \/ /\ store' = [store EXCEPT ![Stub(r)].lyrics = loc[r].lyrics]
          /\ kv' = [kv EXCEPT ![r] = <<[kind |-> "lyrics", steps |-> LyricsBlob(loc[r].lyrics)]>>]
          /\ StepDone(r, "nsfw")
       \/ /\ "pipeline" \in faults
          /\ StepFails(r, ConfigLimit, "failed")
          /\ UNCHANGED <<store, kv>>
    /\ UNCHANGED <<loc, toFlush, d1, playlists, mp3, png, prov, called, obs>>

\* retry_steps?.nsfw || step.do('check nsfw')
CheckNsfw(r, kinds, faults) ==
    /\ pc[r] = "nsfw"
    /\ IF loc[r].retry_steps.nsfw.kind # "none"
       THEN /\ loc' = [loc EXCEPT ![r].nsfw = loc[r].retry_steps.nsfw]
            /\ StepDone(r, "saveNsfw")
            /\ UNCHANGED called
       ELSE /\ called' = [called EXCEPT ![r].nsfw = TRUE]
            /\ \/ \E k \in kinds :
                     /\ loc' = [loc EXCEPT ![r].nsfw = [by |-> r, kind |-> k]]
                     /\ StepDone(r, "saveNsfw")
               \/ /\ "pipeline" \in faults
                  /\ StepFails(r, ConfigLimit, "failed")
                  /\ UNCHANGED loc
    /\ UNCHANGED <<store, toFlush, d1, playlists, kv, mp3, png, prov, obs>>

SaveNsfw(r, faults) ==
    /\ SaveAttempt(r, "saveNsfw", "decide", [store[r] EXCEPT !.nsfw = loc[r].nsfw], faults)
    /\ UNCHANGED <<loc, toFlush, d1, playlists, kv, mp3, png, prov, called, obs>>

\* ------------------------------------------------------------------------
\* The song provider.  prov[g] is what it holds for the generation request
\* of run g: whether the request was accepted (live), the two songs as
\* getSongs() reports them, and how often it has reassigned audio URLs.
\* ------------------------------------------------------------------------

InProgress == 2

Done == 4

Failed == 0 - 1

\* URL reassignments per generation request
MaxUrlChanges == 1

NoProv == [live |-> FALSE, songs |-> <<>>, changes |-> 0]

NewProv(g) == [live |-> TRUE,
               songs |-> <<Song(GenIds(g)[1], InProgress, NoUrl), Song(GenIds(g)[2], InProgress, NoUrl)>>,
               changes |-> 0]

\* the other URL serving the same content
Rehosted(u) == CASE u = "u1" -> "u3" [] u = "u3" -> "u1" [] u = "u2" -> "u4" [] OTHER -> "u2"

\* song k starts streaming
ProviderStream(p, k) ==
    IF p.songs[k].audio = NoUrl /\ p.songs[k].status >= 0
    THEN {[p EXCEPT !.songs[k].audio = IF k = 1 THEN "u1" ELSE "u2"]} ELSE {}

\* song k finishes rendering
ProviderFinish(p, k) ==
    IF p.songs[k].status = InProgress THEN {[p EXCEPT !.songs[k].status = Done]} ELSE {}

\* generation of song k fails
ProviderFail(p, k) ==
    IF p.songs[k].status = InProgress THEN {[p EXCEPT !.songs[k].status = Failed]} ELSE {}

\* song k's audio moves to another URL with the same content
ProviderRehost(p, k, maxChanges) ==
    IF p.changes < maxChanges /\ p.songs[k].audio # NoUrl
    THEN {[p EXCEPT !.songs[k].audio = Rehosted(@), !.changes = @ + 1]} ELSE {}

\* the two songs' audio URLs are exchanged
ProviderSwap(p, maxChanges) ==
    IF p.changes < maxChanges /\ p.songs[1].audio # NoUrl /\ p.songs[2].audio # NoUrl
    THEN {[p EXCEPT !.songs[1].audio = p.songs[2].audio,
                    !.songs[2].audio = p.songs[1].audio, !.changes = @ + 1]}
    ELSE {}

\* what the provider can turn p into in one move
ProviderMoves(p, maxChanges) ==
    IF ~p.live THEN {}
    ELSE UNION {ProviderStream(p, k) \cup ProviderFinish(p, k) \cup ProviderFail(p, k)
                   \cup ProviderRehost(p, k, maxChanges) : k \in 1..2}
         \cup ProviderSwap(p, maxChanges)

\* what p can have become after any number of moves (two per song, plus the
\* URL reassignments)
ProviderFutures(p, maxChanges) ==
    LET R[n \in 0..(4 + maxChanges)] ==
          IF n = 0 THEN {p}
          ELSE R[n - 1] \cup UNION {ProviderMoves(q, maxChanges) : q \in R[n - 1]}
    IN  R[4 + maxChanges]

\* The provider's changes are observable only through getSongs(), so they
\* are taken while some run stands right before a poll of g's songs.
Watched(g) ==
    \E r \in Runs : pc[r] \in {"pollStreaming", "pollComplete"} /\ loc[r].song_ids = GenIds(g)

Provider(g, maxChanges) ==
    /\ Watched(g)
    /\ \E q \in ProviderMoves(prov[g], maxChanges) : prov' = [prov EXCEPT ![g] = q]
    /\ UNCHANGED <<pc, att, loc, store, toFlush, d1, playlists, kv, mp3, png, called, obs>>

\* the run whose generation request produced these song ids
GenOf(ids) == CHOOSE g \in Runs : GenIds(g) = ids

\* ------------------------------------------------------------------------
\* decideSongsStrategy
\* ------------------------------------------------------------------------

CompleteWithAudio(s) == s.status >= 4 /\ s.audio # NoUrl

hasCompleteSongs(retry_steps) ==
    /\ Len(retry_steps.songs) = 2
    /\ Len(retry_steps.song_ids) = 2
    /\ \A i \in 1..Len(retry_steps.songs) : CompleteWithAudio(retry_steps.songs[i])

hasPendingSongIds(retry_steps) ==
    /\ ~hasCompleteSongs(retry_steps)
    /\ Len(retry_steps.song_ids) = 2
    /\ Len(retry_steps.songs) = 2
    /\ \A i \in 1..Len(retry_steps.songs) : retry_steps.songs[i].status >= 0

\* where a reuse path goes after it has its songs: 'validate song order'
\* only when the previous run left exactly two original fingerprints
AfterReuse(retry_steps) ==
    IF Len(retry_steps.original_fingerprints) = 2 THEN "validateOrder" ELSE "saveSongIds"

\* a strategy that never takes path 1
DecideWithoutReuse(r) ==
    /\ pc[r] = "decide"
    /\ pc' = [pc EXCEPT ![r] = IF Len(loc[r].retry_steps.song_ids) = 2 THEN "quickCheck"
                               ELSE "genPrimary"]
    /\ UNCHANGED <<att, loc, store, toFlush, d1, playlists, kv, mp3, png, prov, called, obs>>

\* entry of decideSongsStrategy: which of the three paths is taken
Decide(r) ==
    /\ pc[r] = "decide"
    /\ LET rs == loc[r].retry_steps
       IN  IF hasCompleteSongs(rs)
           THEN /\ loc' = [loc EXCEPT ![r].songs = rs.songs, ![r].song_ids = rs.song_ids,
                                      ![r].source = "aisonggenerator", ![r].reused = "complete"]
                /\ pc' = [pc EXCEPT ![r] = AfterReuse(rs)]
           ELSE /\ pc' = [pc EXCEPT ![r] = IF hasPendingSongIds(rs) THEN "quickCheck" ELSE "genPrimary"]
                /\ UNCHANGED loc
    /\ UNCHANGED <<att, store, toFlush, d1, playlists, kv, mp3, png, prov, called, obs>>


FxOf(songs, o1, o2) ==
    [u \in Urls |-> IF Len(songs) >= 1 /\ u = songs[1].audio THEN o1
                    ELSE IF Len(songs) >= 2 /\ u = songs[2].audio THEN o2
                    ELSE "err"]

\* the outcomes worth distinguishing for the k-th song's URL: one when the
\* song has no audio to fetch
FetchChoices(songs, k, fetch) ==
    IF Len(songs) >= k /\ songs[k].audio # NoUrl THEN fetch ELSE {"err"}

\* whether the plain GET of saveStep('songs') succeeds matters only when
\* some song is complete with audio
GetChoices(songs, faults) ==
    IF "get" \in faults /\ \E i \in 1..Len(songs) : songs[i].status >= 4 /\ songs[i].audio # NoUrl
    THEN BOOLEAN ELSE {TRUE}

\* whether the GET for a later song may fail after the first song was stored
LaterChoices(songs, faults) ==
    IF "getLater" \in faults /\ Len(songs) >= 2 THEN BOOLEAN ELSE {FALSE}

\* a quick recheck that takes over any songs without negative status
QuickCheckAnsweredLenient(r, song_ids, currentSongs) ==
    /\ obs' = [obs EXCEPT ![r].quick =
                 IF \E i \in 1..Len(currentSongs) : currentSongs[i].status < 0 THEN "negative"
                 ELSE IF \A i \in 1..Len(currentSongs) : CompleteWithAudio(currentSongs[i])
                      THEN "complete" ELSE "incomplete"]
    /\ IF \E i \in 1..Len(currentSongs) : currentSongs[i].status < 0
       THEN /\ StepDone(r, "genPrimary")
            /\ UNCHANGED loc
       ELSE /\ loc' = [loc EXCEPT ![r].songs = currentSongs, ![r].song_ids = song_ids,
                                  ![r].source = "aisonggenerator", ![r].reused = "quick"]
            /\ StepDone(r, AfterReuse(loc[r].retry_steps))

\* step 'quick check retry songs' (retries.limit = 0): one getSongs call whose
\* throw is caught inside the step
QuickCheckAnswered(r, song_ids, currentSongs) ==
    IF \E i \in 1..Len(currentSongs) : currentSongs[i].status < 0
    THEN /\ obs' = [obs EXCEPT ![r].quick = "negative"]
         /\ StepDone(r, "genPrimary")
         /\ UNCHANGED loc
    ELSE IF \A i \in 1..Len(currentSongs) : CompleteWithAudio(currentSongs[i])
    THEN /\ obs' = [obs EXCEPT ![r].quick = "complete"]
         /\ loc' = [loc EXCEPT ![r].songs = currentSongs, ![r].song_ids = song_ids,
                               ![r].source = "aisonggenerator", ![r].reused = "quick"]
         /\ StepDone(r, AfterReuse(loc[r].retry_steps))
    ELSE /\ obs' = [obs EXCEPT ![r].quick = "incomplete"]
         /\ StepDone(r, "genPrimary")
         /\ UNCHANGED loc

\* how many songs the answer to a status check holds: all that were asked
\* for, or, where the service may answer short ("short"), any number of them
AnswerLengths(songs, faults) ==
    IF "short" \in faults THEN 0..Len(songs) ELSE {Len(songs)}

\* The provider answers with what the songs have become since the superseded
\* run last asked; no later step of this run asks about these songs again.
QuickCheck(r, faults, maxChanges) ==
    /\ pc[r] = "quickCheck"
    /\ called' = [called EXCEPT ![r].status = Bump(@)]
    /\ \/ \E q \in ProviderFutures(prov[GenOf(loc[r].retry_steps.song_ids)], maxChanges) :
             \E n \in AnswerLengths(q.songs, faults) :
                QuickCheckAnswered(r, loc[r].retry_steps.song_ids, SubSeq(q.songs, 1, n))
       \/ \* getSongs throws
          /\ "quick" \in faults
          /\ obs' = [obs EXCEPT ![r].quick = "threw"]
          /\ StepDone(r, "genPrimary")
          /\ UNCHANGED loc
    /\ UNCHANGED <<store, toFlush, d1, playlists, kv, mp3, png, prov>>

\* step 'validate song order' of paths 1 and 2
ValidateOrderEffect(r, oldFingerprints, fx, matched) ==
    /\ loc' = [loc EXCEPT ![r].songs = IF matched.swapped THEN matched.songs ELSE @]
    /\ obs' = [obs EXCEPT ![r].match = MatchRecord(oldFingerprints, loc[r].songs, fx, matched)]

ValidateOrder(r, fetch) ==
    /\ pc[r] = "validateOrder"
    /\ \E o1 \in FetchChoices(loc[r].songs, 1, fetch),
          o2 \in FetchChoices(loc[r].songs, 2, fetch) :
         ValidateOrderEffect(r, loc[r].retry_steps.original_fingerprints,
                             FxOf(loc[r].songs, o1, o2),
                             matchSongsByFingerprint(loc[r].retry_steps.original_fingerprints,
                                                     loc[r].songs, FxOf(loc[r].songs, o1, o2)))
    /\ StepDone(r, "saveSongIds")
    /\ UNCHANGED <<store, toFlush, d1, playlists, kv, mp3, png, prov, called>>

\* a 'save song ids' after which every path goes on to poll
SaveSongIdsAlwaysPolls(r, faults) ==
    /\ SaveAttempt(r, "saveSongIds", "sleepStreaming",
                   [store[r] EXCEPT !.song_ids = loc[r].song_ids], faults)
    /\ UNCHANGED <<loc, toFlush, d1, playlists, kv, mp3, png, prov, called, obs>>

\* step 'save song ids' (all three paths)
SaveSongIds(r, faults) ==
    /\ SaveAttempt(r, "saveSongIds", IF loc[r].reused = "" THEN "sleepStreaming" ELSE "saveSongs",
                   [store[r] EXCEPT !.song_ids = loc[r].song_ids], faults)
    /\ UNCHANGED <<loc, toFlush, d1, playlists, kv, mp3, png, prov, called, obs>>

\* step 'save songs' of paths 1 and 2
SaveSongs(r, faults) ==
    /\ pc[r] = "saveSongs"
    /\ \E getOk \in GetChoices(loc[r].songs, faults), later \in LaterChoices(loc[r].songs, faults) :
         LET b == IF later THEN SaveSongsBlobsLater(mp3, loc[r].songs)
                  ELSE SaveSongsBlobs(mp3, loc[r].songs, getOk)
         IN  /\ store' = [store EXCEPT ![Stub(r)].songs = loc[r].songs]
             /\ mp3' = b.mp3
             /\ IF b.ok THEN StepDone(r, "complete") ELSE StepFails(r, ConfigLimit, "failed")
    /\ UNCHANGED <<loc, toFlush, d1, playlists, kv, png, prov, called, obs>>

\* a primary generation step whose first failure already hands over to the
\* fallback provider
GeneratePrimaryFailFast(r, faults) ==
    /\ pc[r] = "genPrimary"
    /\ called' = [called EXCEPT ![r].generate = Bump(@)]
    /\ \/ /\ ~prov[r].live
          /\ prov' = [prov EXCEPT ![r] = NewProv(r)]
          /\ loc' = [loc EXCEPT ![r].song_ids = GenIds(r), ![r].source = "aisonggenerator"]
          /\ StepDone(r, "saveSongIds")
       \/ /\ "generate" \in faults
          /\ StepDone(r, "genFallback")
          /\ UNCHANGED <<prov, loc>>
    /\ UNCHANGED <<store, toFlush, d1, playlists, kv, mp3, png, obs>>

\* generateNewSongs: step 'generate songs (aisonggenerator)'; when its
\* retries are exhausted the catch moves on to the fallback provider
GeneratePrimary(r, faults) ==
    /\ pc[r] = "genPrimary"
    /\ called' = [called EXCEPT ![r].generate = Bump(@)]
    /\ \/ /\ ~prov[r].live
          /\ prov' = [prov EXCEPT ![r] = NewProv(r)]
          /\ loc' = [loc EXCEPT ![r].song_ids = GenIds(r), ![r].source = "aisonggenerator"]
          /\ StepDone(r, "saveSongIds")
       \/ /\ "generate" \in faults
          /\ StepFails(r, ConfigLimit, "genFallback")
          /\ UNCHANGED <<prov, loc>>
    /\ UNCHANGED <<store, toFlush, d1, playlists, kv, mp3, png, obs>>

\* generateNewSongs: step 'generate songs (diffrhythm)'
GenerateFallback(r, faults) ==
    /\ pc[r] = "genFallback"
    /\ called' = [called EXCEPT ![r].generate = Bump(@)]
    /\ \/ /\ ~prov[r].live
          /\ prov' = [prov EXCEPT ![r] = NewProv(r)]
          /\ loc' = [loc EXCEPT ![r].song_ids = GenIds(r), ![r].source = "diffrhythm"]
          /\ StepDone(r, "saveSongIds")
       \/ /\ "generate" \in faults
          /\ StepFails(r, ConfigLimit, "failed")
          /\ UNCHANGED <<prov, loc>>
    /\ UNCHANGED <<store, toFlush, d1, playlists, kv, mp3, png, obs>>

\* ------------------------------------------------------------------------
\* Polling Coordinator
\* ------------------------------------------------------------------------

\* pollSongs(mode) on the answer `songs` of getSongs.  Result:
\*   outcome  "pass" (returns), "fail" (ordinary Error) or "fatal"
\*            (NonRetryableError)
\*   songs    the list it returns on "pass"
\*   steps    the run's stored steps afterwards
\*   mp3      the bucket afterwards
\*   snapshot TRUE when ctx.storage.put('songs', ...) was executed
\*   detect   how detectAndCorrectSwaps ended: "ok", "insufficient", "err",
\*            or "none" when it was not called
\*   match    the record of the match() call made by swap detection
\*   captured the fingerprints swap detection held in memory when it ended
NoDetection(steps, songs) ==
    [kind |-> "ok", songs |-> songs, steps |-> steps, match |-> NoMatch,
     captured |-> <<>>]

\* a pollSongs that writes the snapshot only once the poll has passed
LateSnapshotAfterDetect(mode, source, steps, bucket, songs, getOk, d) ==
    LET neg == \E i \in 1..Len(songs) : songs[i].status < 0
        has_audio == \E i \in 1..Len(songs) : songs[i].audio # NoUrl
        all_have_audio == \A i \in 1..Len(songs) : songs[i].audio # NoUrl
        is_complete == \A i \in 1..Len(songs) : songs[i].status >= 4
        passes == IF mode = "streaming" THEN all_have_audio ELSE is_complete
        b == SaveSongsBlobs(bucket, d.songs, getOk)
    IN  IF neg \/ ~has_audio \/ d.kind # "ok" \/ ~passes
        THEN [outcome |-> IF neg THEN "fatal" ELSE "fail", songs |-> <<>>,
              steps |-> IF neg \/ ~has_audio THEN steps ELSE d.steps, mp3 |-> bucket,
              snapshot |-> FALSE, match |-> IF neg \/ ~has_audio THEN NoMatch ELSE d.match,
              captured |-> IF neg \/ ~has_audio THEN <<>> ELSE d.captured,
              detect |-> IF neg \/ ~has_audio \/ source # "aisonggenerator" THEN "none" ELSE d.kind]
        ELSE [outcome |-> IF b.ok THEN "pass" ELSE "fail", songs |-> d.songs,
              steps |-> [d.steps EXCEPT !.songs = d.songs], mp3 |-> b.mp3,
              snapshot |-> TRUE, match |-> d.match, captured |-> d.captured,
              detect |-> IF source # "aisonggenerator" THEN "none" ELSE d.kind]

pollSongsLateSnapshot(mode, source, steps, bucket, songs, fx, getOk) ==
    LateSnapshotAfterDetect(mode, source, steps, bucket, songs, getOk,
                            IF source = "aisonggenerator"
                            THEN detectAndCorrectSwaps(steps, songs, fx)
                            ELSE NoDetection(steps, songs))

\* pollSongs with d what detectAndCorrectSwaps does once it is reached
pollSongsAfterDetect(mode, source, steps, bucket, songs, getOk, d) ==
    LET neg == \E i \in 1..Len(songs) : songs[i].status < 0
        has_audio == \E i \in 1..Len(songs) : songs[i].audio # NoUrl
        all_have_audio == \A i \in 1..Len(songs) : songs[i].audio # NoUrl
        is_complete == \A i \in 1..Len(songs) : songs[i].status >= 4
        rawSave == SaveSongsBlobs(bucket, songs, getOk)
        b == SaveSongsBlobs(bucket, d.songs, getOk)
        passes == IF mode = "streaming" THEN all_have_audio ELSE is_complete
    IN  IF neg
        THEN \* saveStep('songs', songs), then NonRetryableError; a throw of
             \* saveStep comes first and is an ordinary Error
             [outcome |-> IF rawSave.ok THEN "fatal" ELSE "fail", songs |-> <<>>,
              steps |-> [steps EXCEPT !.songs = songs], mp3 |-> rawSave.mp3,
              snapshot |-> TRUE, match |-> NoMatch, captured |-> <<>>, detect |-> "none"]
        ELSE IF ~has_audio
        THEN [outcome |-> "fail", songs |-> <<>>, steps |-> steps, mp3 |-> bucket,
              snapshot |-> FALSE, match |-> NoMatch, captured |-> <<>>, detect |-> "none"]
        ELSE IF d.kind # "ok"
        THEN [outcome |-> "fail", songs |-> <<>>, steps |-> d.steps, mp3 |-> bucket,
              snapshot |-> FALSE, match |-> NoMatch, captured |-> d.captured,
              detect |-> d.kind]
        ELSE [outcome |-> IF b.ok /\ passes THEN "pass" ELSE "fail", songs |-> d.songs,
              steps |-> [d.steps EXCEPT !.songs = d.songs], mp3 |-> b.mp3,
              snapshot |-> TRUE, match |-> d.match, captured |-> d.captured,
              detect |-> IF source = "aisonggenerator" THEN "ok" ELSE "none"]

pollSongs(mode, source, steps, bucket, songs, fx, getOk) ==
    pollSongsAfterDetect(mode, source, steps, bucket, songs, getOk,
                         IF source = "aisonggenerator"
                         THEN detectAndCorrectSwaps(steps, songs, fx)
                         ELSE NoDetection(steps, songs))

\* What is recorded of a run's last poll: its mode, whether the provider's
\* answer had a negative status / any audio, how the poll ended, whether it
\* wrote the songs snapshot and which list it wrote, how its swap detection
\* ended and the match() call that made.  Kept over the whole run: the
\* outcome of the quick recheck, and for each musicId the first fingerprint
\* that extractFingerprint returned for it.
FirstCaptured(first, captured) ==
    LET F[i \in 0..Len(captured)] ==
          IF i = 0 THEN first
          ELSE IF HasKey(F[i - 1], captured[i].k) THEN F[i - 1]
               ELSE Append(F[i - 1], captured[i])
    IN  F[Len(captured)]

Observe(mode, songs, p, quick, first) ==
    [polled   |-> TRUE,
     mode     |-> mode,
     negative |-> \E i \in 1..Len(songs) : songs[i].status < 0,
     audio    |-> \E i \in 1..Len(songs) : songs[i].audio # NoUrl,
     detect   |-> p.detect,
     outcome  |-> p.outcome,
     snapshot |-> p.snapshot,
     songs    |-> IF p.snapshot THEN p.steps.songs ELSE <<>>,
     match    |-> p.match,
     quick    |-> quick,
     first    |-> first]

\* what an attempt whose pollSongs call ended as p does to the run
PollEffect(r, mode, limit, next(_), songs, p) ==
    /\ store' = [store EXCEPT ![Stub(r)] = p.steps]
    /\ mp3' = p.mp3
    /\ obs' = [obs EXCEPT ![r] = Observe(mode, songs, p, obs[r].quick,
                                             FirstCaptured(obs[r].first, p.captured))]
    /\ CASE p.outcome = "pass" ->
              /\ loc' = [loc EXCEPT ![r].songs = p.songs]
              /\ StepDone(r, next(p.songs))
         [] p.outcome = "fatal" ->
              /\ StepDone(r, "aborted")
              /\ UNCHANGED loc
         [] OTHER ->
              /\ StepFails(r, limit, "failed")
              /\ UNCHANGED loc

\* the provider's answer to getSongs(song_ids)
getSongs(song_ids) == prov[GenOf(song_ids)].songs

PollAnswered(r, mode, limit, next(_), songs, fetch, faults) ==
    \E o1 \in FetchChoices(songs, 1, fetch), o2 \in FetchChoices(songs, 2, fetch),
       getOk \in GetChoices(songs, faults) :
         PollEffect(r, mode, limit, next, songs,
                    pollSongs(mode, loc[r].source, store[r], mp3, songs,
                              FxOf(songs, o1, o2), getOk))

\* one attempt of a polling step: getSongs, then pollSongs(mode)
PollAttempt(r, mode, limit, next(_), fetch, faults) ==
    /\ called' = [called EXCEPT ![r].status = Bump(@)]
    /\ \/ \* getSongs throws
          /\ "status" \in faults
          /\ StepFails(r, limit, "failed")
          /\ UNCHANGED <<loc, store, mp3, obs>>
       \/ PollAnswered(r, mode, limit, next, getSongs(loc[r].song_ids), fetch, faults)
    /\ UNCHANGED <<toFlush, d1, playlists, kv, png, prov>>

\* step.sleep('wait for songs to start streaming')
SleepStreaming(r) ==
    /\ pc[r] = "sleepStreaming"
    /\ pc' = [pc EXCEPT ![r] = "pollStreaming"]
    /\ UNCHANGED <<att, loc, store, toFlush, d1, playlists, kv, mp3, png, prov, called, obs>>

\* after 'wait for streaming': skip the completion phase when every song
\* already has status >= 4
AfterStreaming(streamingSongs) ==
    IF \A i \in 1..Len(streamingSongs) : streamingSongs[i].status >= 4
    THEN "complete" ELSE "sleepComplete"

\* step 'wait for streaming'
PollStreaming(r, fetch, faults) ==
    /\ pc[r] = "pollStreaming"
    /\ PollAttempt(r, "streaming", StreamingLimit, AfterStreaming, fetch, faults)

\* step.sleep('wait for songs to complete')
SleepComplete(r) ==
    /\ pc[r] = "sleepComplete"
    /\ pc' = [pc EXCEPT ![r] = "pollComplete"]
    /\ UNCHANGED <<att, loc, store, toFlush, d1, playlists, kv, mp3, png, prov, called, obs>>

AfterComplete(completeSongs) == "complete"

\* step 'get songs'
PollComplete(r, fetch, faults) ==
    /\ pc[r] = "pollComplete"
    /\ PollAttempt(r, "complete", CompleteLimit, AfterComplete, fetch, faults)

\* ------------------------------------------------------------------------
\* Workflow.run, step 7: 'complete workflow'
\* ------------------------------------------------------------------------

\* a row whose Public flag is the requested one whatever the verdict
SmolRowAsRequested(r) ==
    [Id |-> r, Title |-> loc[r].lyrics.by,
     Song_1 |-> loc[r].songs[1].music_id, Song_2 |-> loc[r].songs[2].music_id,
     Address |-> loc[r].payload.address,
     Public |-> loc[r].payload.public # "F"]

\* the row bound by INSERT INTO Smols
SmolRow(r) ==
    LET is_public == loc[r].payload.public # "F"
    IN  [Id |-> r, Title |-> loc[r].lyrics.by,
         Song_1 |-> loc[r].songs[1].music_id, Song_2 |-> loc[r].songs[2].music_id,
         Address |-> loc[r].payload.address,
         Public |-> IF loc[r].nsfw.kind = "unsafe" THEN FALSE ELSE is_public]

\* the aggregate put in SMOL_KV
Aggregate(r) ==
    [kind |-> "full",
     steps |-> [EmptySteps EXCEPT !.payload = loc[r].payload,
                                  !.image_base64 = loc[r].image_base64,
                                  !.description = loc[r].description,
                                  !.lyrics = loc[r].lyrics, !.nsfw = loc[r].nsfw,
                                  !.song_ids = loc[r].song_ids, !.songs = loc[r].songs]]

\* mp3 keys the retry cleanup deletes
CleanupDeletes(retry_steps) ==
    IF hasCompleteSongs(retry_steps) THEN {}
    ELSE {retry_steps.songs[i].music_id :
             i \in {j \in 1..Len(retry_steps.songs) : retry_steps.songs[j].status >= 4}}

\* number of sub-actions of the step's callback
CompleteSubActions == 10

\* the stores after the first n sub-actions of the callback have executed;
\* flushOk: retry_stub.setToFlush() did not throw (its throw is swallowed).
\* ok = FALSE: a sub-action threw by itself and the rest did not execute.
\* INSERT INTO Playlists has no ON CONFLICT clause and the table is
\* UNIQUE (Id, Title): inserting a row that exists throws.
CompleteSubAction(r, i, a, flushOk) ==
    CASE ~a.ok -> a
      [] i = 1 -> [a EXCEPT !.toFlush = @ \cup {r}]
      [] i = 2 -> [a EXCEPT !.d1[r] = IF @ = <<>> THEN <<SmolRow(r)>> ELSE @]
      [] i = 3 -> [a EXCEPT !.kv[r] = <<Aggregate(r)>>]
      [] i = 4 /\ RetryOf(r) # "" /\ flushOk -> [a EXCEPT !.toFlush = @ \cup {RetryOf(r)}]
      [] i = 5 /\ RetryOf(r) # "" -> [a EXCEPT !.d1[RetryOf(r)] = <<>>]
      [] i = 6 /\ RetryOf(r) # "" -> [a EXCEPT !.kv[RetryOf(r)] = <<>>]
      [] i = 7 /\ RetryOf(r) # "" -> [a EXCEPT !.png = @ \ {RetryOf(r)}]
      [] i = 8 /\ RetryOf(r) # "" ->
           [a EXCEPT !.mp3 = [m \in MusicIds |->
                IF m \in CleanupDeletes(loc[r].retry_steps) THEN "" ELSE a.mp3[m]]]
      [] i = 9 /\ loc[r].playlist # "" ->
           IF <<r, loc[r].playlist>> \in a.playlists
           THEN [a EXCEPT !.ok = FALSE]
           ELSE [a EXCEPT !.playlists = @ \cup {<<r, loc[r].playlist>>}]
      [] OTHER -> a

CompleteEffects(r, n, flushOk) ==
    LET E[i \in 0..n] ==
          IF i = 0 THEN [toFlush |-> toFlush, d1 |-> d1, playlists |-> playlists, kv |-> kv,
                         png |-> png, mp3 |-> mp3, ok |-> TRUE]
          ELSE CompleteSubAction(r, i, E[i - 1], flushOk)
    IN  E[n]

CompleteApply(e) ==
    /\ toFlush' = e.toFlush
    /\ d1' = e.d1
    /\ playlists' = e.playlists
    /\ kv' = e.kv
    /\ png' = e.png
    /\ mp3' = e.mp3

\* an attempt that left the stores as e: it passes when all sub-actions
\* were reached and none threw
CompleteAttempt(r, n, e) ==
    /\ CompleteApply(e)
    /\ IF n = CompleteSubActions /\ e.ok THEN StepDone(r, "done")
       ELSE StepFails(r, ConfigLimit, "failed")

\* one attempt of the step: the first n sub-actions execute; the attempt
\* succeeds when all of them did, otherwise sub-action n + 1 threw
Complete(r, faults) ==
    /\ pc[r] = "complete"
    /\ \E n \in 0..CompleteSubActions, flushOk \in BOOLEAN :
         /\ n < CompleteSubActions => "complete" \in faults
         /\ ~flushOk => RetryOf(r) # "" /\ n >= 4 /\ "complete" \in faults
         /\ n >= 2 => Len(loc[r].songs) >= 2
         /\ CompleteAttempt(r, n, CompleteEffects(r, n, flushOk))
    /\ UNCHANGED <<loc, store, prov, called, obs>>

\* the alarm scheduled by setToFlush() fires: SmolDurableObject.flush()
Alarm(r) ==
    /\ r \in toFlush
    /\ toFlush' = toFlush \ {r}
    /\ store' = [store EXCEPT ![r] = EmptySteps]
    /\ UNCHANGED <<pc, att, loc, d1, playlists, kv, mp3, png, prov, called, obs>>

\* ------------------------------------------------------------------------
\* Specifications
\* ------------------------------------------------------------------------

Init ==
    /\ pc = [r \in Runs |-> "idle"]
    /\ att = [r \in Runs |-> 0]
    /\ loc = [r \in Runs |-> NoLocals]
    /\ store = [r \in Runs |-> EmptySteps]
    /\ toFlush = {}
    /\ d1 = [r \in Runs |-> <<>>]
    /\ playlists = {}
    /\ kv = [r \in Runs |-> <<>>]
    /\ mp3 = [m \in MusicIds |-> ""]
    /\ png = {}
    /\ prov = [r \in Runs |-> NoProv]
    /\ called = [r \in Runs |-> NoCalls]
    /\ obs = [r \in Runs |-> NoObs]

\* the steps every run goes through, in a world w that bounds what the
\* collaborators do: w.nsfw the verdicts of checkNSFW, w.fetch the outcomes
\* of fetching an audio URL, w.faults the kinds of step that may throw
RunStep(r, w) ==
    \/ Validate(r)
    \/ SavePayload(r, w.faults)
    \/ GenerateImage(r, w.faults)
    \/ SaveImage(r, w.faults)
    \/ DescribeImage(r, w.faults)
    \/ SaveDescription(r, w.faults)
    \/ GenerateLyrics(r, w.faults)
    \/ SaveLyrics(r, w.faults)
    \/ CheckNsfw(r, w.nsfw, w.faults)
    \/ SaveNsfw(r, w.faults)
    \/ Decide(r)
    \/ GeneratePrimary(r, w.faults)
    \/ GenerateFallback(r, w.faults)
    \/ SaveSongIds(r, w.faults)
    \/ SleepStreaming(r)
    \/ PollStreaming(r, w.fetch, w.faults)
    \/ SleepComplete(r)
    \/ PollComplete(r, w.fetch, w.faults)
    \/ Complete(r, w.faults)

\* the steps only a retry run goes through
RetryStep(r, w) ==
    \/ RetryLoad(r, w.faults)
    \/ QuickCheck(r, w.faults, MaxUrlChanges)
    \/ ValidateOrder(r, w.fetch)
    \/ SaveSongs(r, w.faults)

\* kinds of step that may throw: the steps before song generation, the
\* generation requests, the status check of the quick recheck, the status
\* check of a poll, the plain GET of saveStep('songs'), 'complete workflow';
\* "getLater" is the GET of step 'save songs' failing after the first song
AllFaults == {"pipeline", "generate", "quick", "status", "get", "complete"}

\* the world of the single fresh run: every step may fail, an audio fetch
\* fails or delivers the full range
PollWorld == [nsfw |-> {"safe"}, fetch |-> {"err", "full"}, faults |-> AllFaults]

\* ------------------------------------------------------------------------
\* A single fresh run
\* ------------------------------------------------------------------------

Next ==
    \/ PostSmol("r0", "T", "")
    \/ RunStep("r0", PollWorld)
    \/ Provider("r0", MaxUrlChanges)
    \/ Alarm("r0")

Spec == Init /\ [][Next]_vars

\* ------------------------------------------------------------------------
\* Where a first run can leave the system.  Each Prior(k) is a state the
\* single fresh run reaches under Spec (PriorReached(k) is reachable there);
\* the retry specifications start from these instead of running r0 again.
\* ------------------------------------------------------------------------

P0 == [NoPayload EXCEPT !.address = "a0", !.prompt = "p0", !.public = "T"]

FpOf(id, u) ==
    [k |-> id, fp |-> [hash |-> <<Content(u), DefaultHashBytes>>,
                       byteLength |-> DefaultHashBytes, duration |-> Dur(Content(u))]]

PriorKinds == {"lyrics", "generate", "streaming", "completing", "complete", "aborted", "flushed"}

\* local variables, step store and call record of r0 once it got past the
\* step named by stage
PriorLoc(stage) ==
    LET l1 == [NoLocals EXCEPT !.payload = P0, !.image_base64 = "r0", !.description = "r0"]
        l2 == [l1 EXCEPT !.lyrics = GoodLyrics("r0"), !.nsfw = [by |-> "r0", kind |-> "safe"]]
        l3 == [l2 EXCEPT !.song_ids = GenIds("r0"), !.source = "aisonggenerator"]
    IN  CASE stage = "description" -> l1
          [] stage = "nsfw" -> l2
          [] OTHER -> l3

PriorStore(stage) ==
    LET l == PriorLoc(stage)
    IN  [EmptySteps EXCEPT !.payload = l.payload, !.image_base64 = l.image_base64,
                           !.description = l.description, !.lyrics = l.lyrics,
                           !.nsfw = l.nsfw, !.song_ids = l.song_ids]

PriorCalls(stage) ==
    LET c1 == [NoCalls EXCEPT !.image = TRUE, !.describe = TRUE, !.lyrics = TRUE]
        c2 == [c1 EXCEPT !.nsfw = TRUE]
    IN  CASE stage = "description" -> c1
          [] stage = "nsfw" -> [c2 EXCEPT !.generate = CallCap]
          [] stage = "one poll" -> [c2 EXCEPT !.generate = 1, !.status = 1]
          [] OTHER -> [c2 EXCEPT !.generate = 1, !.status = CallCap]

PriorObs(mode, songs, outcome) ==
    [polled |-> TRUE, mode |-> mode,
     negative |-> \E i \in 1..Len(songs) : songs[i].status < 0,
     audio |-> \E i \in 1..Len(songs) : songs[i].audio # NoUrl,
     detect |-> IF outcome = "fatal" THEN "none" ELSE "ok",
     outcome |-> outcome, snapshot |-> TRUE, songs |-> songs, match |-> NoMatch,
     quick |-> "", first |-> <<>>]

\* r0 after polls that last saw the list `songs`, fingerprints fps taken
PriorPolled(pcEnd, mode, outcome, locSongs, songs, fps, blobs) ==
    [pc |-> pcEnd,
     loc |-> [PriorLoc("song_ids") EXCEPT !.songs = locSongs],
     store |-> [PriorStore("song_ids") EXCEPT
                   !.songs = songs, !.original_fingerprints = fps,
                   !.last_known_urls = RebuildUrls(songs)],
     called |-> PriorCalls(IF outcome = "fatal" THEN "one poll" ELSE "polls"),
     obs |-> [PriorObs(mode, songs, outcome) EXCEPT !.first = fps],
     prov |-> [live |-> TRUE, songs |-> songs, changes |-> 0],
     mp3 |-> [m \in MusicIds |-> IF m \in blobs THEN Content(RebuildUrls(songs)[m]) ELSE ""],
     png |-> {"r0"}, kvLyrics |-> TRUE, row |-> FALSE, full |-> FALSE]

Prior(k) ==
    LET A == GenIds("r0")[1]
        B == GenIds("r0")[2]
        streamed == <<Song(A, InProgress, "u1"), Song(B, InProgress, "u2")>>
        finished == <<Song(A, Done, "u1"), Song(B, Done, "u2")>>
        bothFps == <<FpOf(A, "u1"), FpOf(B, "u2")>>
    IN  CASE k = "lyrics" ->
               \* 'generate lyrics' ran out of attempts
               [pc |-> "failed", loc |-> PriorLoc("description"),
                store |-> PriorStore("description"), called |-> PriorCalls("description"),
                obs |-> NoObs, prov |-> NoProv, mp3 |-> [m \in MusicIds |-> ""],
                png |-> {"r0"}, kvLyrics |-> FALSE, row |-> FALSE, full |-> FALSE]
          [] k = "generate" ->
               \* both providers ran out of attempts
               [pc |-> "failed", loc |-> PriorLoc("nsfw"),
                store |-> PriorStore("nsfw"), called |-> PriorCalls("nsfw"),
                obs |-> NoObs, prov |-> NoProv, mp3 |-> [m \in MusicIds |-> ""],
                png |-> {"r0"}, kvLyrics |-> TRUE, row |-> FALSE, full |-> FALSE]
          [] k = "streaming" ->
               \* 'wait for streaming' ran out of attempts: the second song never got audio
               PriorPolled("failed", "streaming", "fail", <<>>,
                           <<Song(A, InProgress, "u1"), Song(B, InProgress, NoUrl)>>,
                           <<FpOf(A, "u1")>>, {})
          [] k = "completing" ->
               \* 'get songs' ran out of attempts: the second song never finished
               PriorPolled("failed", "complete", "fail", streamed,
                           <<Song(A, Done, "u1"), Song(B, InProgress, "u2")>>,
                           bothFps, {A})
          [] k = "complete" ->
               \* 'complete workflow' ran out of attempts before its first write
               PriorPolled("failed", "complete", "pass", finished, finished, bothFps, {A, B})
          [] k = "aborted" ->
               \* the first poll saw a failed song
               PriorPolled("aborted", "streaming", "fatal", <<>>,
                           <<Song(A, Failed, NoUrl), Song(B, InProgress, NoUrl)>>, <<>>, {})
          [] k = "inflight" ->
               \* still running: about to enter 'complete workflow'
               PriorPolled("complete", "complete", "pass", finished, finished, bothFps, {A, B})
          [] OTHER ->
               \* "flushed": completed, and the alarm emptied its step store
               [PriorPolled("done", "complete", "pass", finished, finished, bothFps, {A, B})
                   EXCEPT !.store = EmptySteps, !.row = TRUE, !.full = TRUE]

\* the whole state with r0 as Prior(k) leaves it and no other run started
PriorState(k) ==
    LET q == Prior(k)
        only(x, none) == [r \in Runs |-> IF r = "r0" THEN x ELSE none]
        fullSteps == [EmptySteps EXCEPT
                         !.payload = q.loc.payload, !.image_base64 = q.loc.image_base64,
                         !.description = q.loc.description, !.lyrics = q.loc.lyrics,
                         !.nsfw = q.loc.nsfw, !.song_ids = q.loc.song_ids,
                         !.songs = q.loc.songs]
    IN  [pc |-> only(q.pc, "idle"), att |-> [r \in Runs |-> 0],
         loc |-> only(q.loc, NoLocals), store |-> only(q.store, EmptySteps),
         toFlush |-> {},
         d1 |-> only(IF q.row
                     THEN <<[Id |-> "r0", Title |-> "r0", Song_1 |-> q.loc.songs[1].music_id,
                             Song_2 |-> q.loc.songs[2].music_id, Address |-> "a0",
                             Public |-> TRUE]>>
                     ELSE <<>>, <<>>),
         playlists |-> {},
         kv |-> only(IF q.full THEN <<[kind |-> "full", steps |-> fullSteps]>>
                     ELSE IF q.kvLyrics
                     THEN <<[kind |-> "lyrics", steps |-> LyricsBlob(GoodLyrics("r0"))]>>
                     ELSE <<>>, <<>>),
         mp3 |-> q.mp3, png |-> q.png,
         prov |-> only(q.prov, NoProv), called |-> only(q.called, NoCalls),
         obs |-> only(q.obs, NoObs)]

StateIs(st) ==
    /\ pc = st.pc /\ att = st.att /\ loc = st.loc /\ store = st.store
    /\ toFlush = st.toFlush /\ d1 = st.d1 /\ playlists = st.playlists /\ kv = st.kv /\ mp3 = st.mp3
    /\ png = st.png /\ prov = st.prov /\ called = st.called /\ obs = st.obs

PriorReached(k) == StateIs(PriorState(k))

\* ------------------------------------------------------------------------
\* A retry of a run that has ended
\* ------------------------------------------------------------------------

InitRetry == \E k \in PriorKinds : StateIs(PriorState(k))

\* the world of the retry run: the songs it requests keep their URLs and
\* their polls fail only because the songs are not ready
RetryWorld == [nsfw |-> {"safe"}, fetch |-> {"full"},
               faults |-> {"pipeline", "generate", "quick", "complete", "getLater"}]

NextRetry ==
    \/ PostRetry("r1")
    \/ RetryStep("r1", RetryWorld)
    \/ RunStep("r1", RetryWorld)
    \/ Provider("r1", 0)
    \/ Alarm("r0")
    \/ Alarm("r1")

SpecRetry == InitRetry /\ [][NextRetry]_vars

\* ------------------------------------------------------------------------
\* Two retries of the same run, which itself may still be running
\* ------------------------------------------------------------------------

ConcKinds == {"complete", "inflight", "flushed"}

InitConc == \E k \in ConcKinds : StateIs(PriorState(k))

\* the world of the concurrent retries: no step throws, so that the runs
\* differ only in how their steps interleave
ConcWorld == [nsfw |-> {"safe"}, fetch |-> {"full"}, faults |-> {}]

\* The steps of a retry run that loads either nothing or two complete songs:
\* it leaves decideSongsStrategy on path 1, so of RunStep and RetryStep
\* these are the steps it can take.
ReuseStep(r, w) ==
    \/ PostRetry(r)
    \/ RetryLoad(r, w.faults)
    \/ Validate(r)
    \/ SavePayload(r, w.faults)
    \/ GenerateImage(r, w.faults)
    \/ SaveImage(r, w.faults)
    \/ DescribeImage(r, w.faults)
    \/ SaveDescription(r, w.faults)
    \/ GenerateLyrics(r, w.faults)
    \/ SaveLyrics(r, w.faults)
    \/ CheckNsfw(r, w.nsfw, w.faults)
    \/ SaveNsfw(r, w.faults)
    \/ Decide(r)
    \/ ValidateOrder(r, w.fetch)
    \/ SaveSongIds(r, w.faults)
    \/ SaveSongs(r, w.faults)
    \/ Complete(r, w.faults)

NextConc ==
    \/ ReuseStep("r1", ConcWorld)
    \/ ReuseStep("r2", ConcWorld)
    \/ Complete("r0", ConcWorld.faults)
    \/ \E r \in Runs : Alarm(r)

SpecConc == InitConc /\ [][NextConc]_vars

\* ------------------------------------------------------------------------
\* A fresh run to its end, then a retry of it
\* ------------------------------------------------------------------------

\* playlist of the request: none, or one title
PlaylistNames == {"", "P"}

\* every NSFW verdict occurs and only 'complete workflow' may throw
FinishWorld == [nsfw |-> NsfwKinds, fetch |-> {"full"}, faults |-> {"complete"}]

\* the retry meets every verdict and no fault
ResumeWorld == [nsfw |-> NsfwKinds, fetch |-> {"full"}, faults |-> {}]

\* the steps of a fresh run whose generation request is accepted
FreshStep(r, w) ==
    \/ Validate(r)
    \/ SavePayload(r, w.faults)
    \/ GenerateImage(r, w.faults)
    \/ SaveImage(r, w.faults)
    \/ DescribeImage(r, w.faults)
    \/ SaveDescription(r, w.faults)
    \/ GenerateLyrics(r, w.faults)
    \/ SaveLyrics(r, w.faults)
    \/ CheckNsfw(r, w.nsfw, w.faults)
    \/ SaveNsfw(r, w.faults)
    \/ Decide(r)
    \/ GeneratePrimary(r, w.faults)
    \/ SaveSongIds(r, w.faults)
    \/ SleepStreaming(r)
    \/ PollStreaming(r, w.fetch, w.faults)
    \/ SleepComplete(r)
    \/ PollComplete(r, w.fetch, w.faults)
    \/ Complete(r, w.faults)

\* run r has ended with two complete songs in hand: it finished, or it ran
\* out of attempts in 'complete workflow'
EndedComplete(r) ==
    /\ pc[r] \in {"done", "failed"}
    /\ Len(loc[r].songs) = 2
    /\ \A i \in 1..2 : CompleteWithAudio(loc[r].songs[i])

\* the steps of the retry once it is requested
ResumeStep(r, w) ==
    \/ RetryLoad(r, w.faults)
    \/ Validate(r)
    \/ SavePayload(r, w.faults)
    \/ GenerateImage(r, w.faults)
    \/ SaveImage(r, w.faults)
    \/ DescribeImage(r, w.faults)
    \/ SaveDescription(r, w.faults)
    \/ GenerateLyrics(r, w.faults)
    \/ SaveLyrics(r, w.faults)
    \/ CheckNsfw(r, w.nsfw, w.faults)
    \/ SaveNsfw(r, w.faults)
    \/ Decide(r)
    \/ ValidateOrder(r, w.fetch)
    \/ SaveSongIds(r, w.faults)
    \/ SaveSongs(r, w.faults)
    \/ Complete(r, w.faults)

NextFinish ==
    \/ \E pub \in {"T", "F"}, playlist \in PlaylistNames : PostSmol("r0", pub, playlist)
    \/ FreshStep("r0", FinishWorld)
    \/ Provider("r0", 0)
    \/ EndedComplete("r0") /\ PostRetry("r1")
    \/ ResumeStep("r1", ResumeWorld)
    \/ \E r \in Runs : Alarm(r)

SpecFinish == Init /\ [][NextFinish]_vars

\* ------------------------------------------------------------------------
\* A fresh run whose lyrics collaborator may answer incompletely
\* ------------------------------------------------------------------------

LyricsWorld == [nsfw |-> {"safe"}, fetch |-> {"full"}, faults |-> {"lyrics"}]

NextLyrics ==
    \/ PostSmol("r0", "T", "")
    \/ FreshStep("r0", LyricsWorld)
    \/ Provider("r0", 0)
    \/ Alarm("r0")

SpecLyrics == Init /\ [][NextLyrics]_vars

\* ------------------------------------------------------------------------
\* match() on its own: the inputs are drawn at the start, one step calls it
\* ------------------------------------------------------------------------

\* a fingerprint captured with or without a parsed duration
FpWith(id, u, parsed) ==
    IF parsed THEN FpOf(id, u) ELSE [FpOf(id, u) EXCEPT !.fp.duration = Undef]

\* two original fingerprints, recorded in either order, of either content,
\* each with or without a duration
MatchFps ==
    {<<FpWith(k[1], u1, p1), FpWith(k[2], u2, p2)>> :
        k \in {<<"A", "B">>, <<"B", "A">>}, u1 \in {"u1", "u2"}, u2 \in {"u1", "u2"},
        p1 \in BOOLEAN, p2 \in BOOLEAN}

\* two candidates carrying the two ids in either order, each with any URL or
\* none
MatchCands ==
    {<<Song(k[1], Done, a1), Song(k[2], Done, a2)>> :
        k \in {<<"A", "B">>, <<"B", "A">>}, a1 \in Urls \cup {NoUrl}, a2 \in Urls \cup {NoUrl}}

\* what a fetch made by match() can yield
MatchFetches == {"err", "short", "nometa", "full"}

InitMatch ==
    /\ \E fps \in MatchFps, cands \in MatchCands :
          obs = [r \in Runs |->
                   IF r = "r0"
                   THEN [NoObs EXCEPT !.match = [NoMatch EXCEPT !.fps = fps, !.cands = cands]]
                   ELSE NoObs]
    /\ pc = [r \in Runs |-> "idle"]
    /\ att = [r \in Runs |-> 0]
    /\ loc = [r \in Runs |-> NoLocals]
    /\ store = [r \in Runs |-> EmptySteps]
    /\ toFlush = {}
    /\ d1 = [r \in Runs |-> <<>>]
    /\ playlists = {}
    /\ kv = [r \in Runs |-> <<>>]
    /\ mp3 = [m \in MusicIds |-> ""]
    /\ png = {}
    /\ prov = [r \in Runs |-> NoProv]
    /\ called = [r \in Runs |-> NoCalls]

\* the default fingerprints extractFingerprint(audio) yields for the
\* candidates of a call: what the duration pass works with
FreshTable(cands, fx) ==
    [j \in 1..Len(cands) |->
        extractFingerprint(cands[j].audio, Undef, Undef, FxAt(fx, cands[j].audio))]

\* one call matchSongsByFingerprint(fps, cands) with the drawn inputs; the
\* record of the call also keeps the default fingerprints, under fresh
MatchCall ==
    LET m == obs["r0"].match
    IN  /\ ~m.called
        /\ \E o1 \in FetchChoices(m.cands, 1, MatchFetches),
              o2 \in FetchChoices(m.cands, 2, MatchFetches) :
             obs' = [obs EXCEPT !["r0"].match =
                       MatchRecord(m.fps, m.cands, FxOf(m.cands, o1, o2),
                                   matchSongsByFingerprint(m.fps, m.cands, FxOf(m.cands, o1, o2)))
                       @@ [fresh |-> FreshTable(m.cands, FxOf(m.cands, o1, o2))]]
        /\ UNCHANGED <<pc, att, loc, store, toFlush, d1, playlists, kv, mp3, png, prov, called>>

SpecMatch == InitMatch /\ [][MatchCall]_vars

\* ------------------------------------------------------------------------
\* Properties of a single fresh run (checked under Spec)
\* ------------------------------------------------------------------------

\* the run's step store still holds what its steps saved (the alarm of
\* setToFlush has not emptied it)
Stored(r) == store[r].song_ids # <<>>

\* C1 (slot stability): from one persisted songs snapshot of a run to the
\* next, each list position keeps its music_id; the audio at a position has
\* the content of the fingerprint first captured for its music_id; and the
\* final row names the songs in the order of the snapshot.
C1_SlotStability ==
    [][\A r \in Runs :
         /\ (store[r].songs # <<>> /\ store'[r].songs # <<>>) =>
               \A i \in 1..Len(store[r].songs) :
                  store'[r].songs[i].music_id = store[r].songs[i].music_id
         /\ \A i \in 1..Len(store'[r].songs) :
               LET s == store'[r].songs[i]
               IN  (s.audio # NoUrl /\ HasKey(store'[r].original_fingerprints, s.music_id)) =>
                      Content(s.audio) = Lookup(store'[r].original_fingerprints, s.music_id).hash[1]
         /\ (d1'[r] # <<>> /\ store'[r].songs # <<>>) =>
               /\ d1'[r][1].Song_1 = store'[r].songs[1].music_id
               /\ d1'[r][1].Song_2 = store'[r].songs[2].music_id]_vars


\* the candidates of a match() call hash-match the two originals under
\* exchanged music_ids (and not under their own)
Exchanged(m) ==
    /\ m.called
    /\ Len(m.fps) = 2
    /\ Len(m.cands) = 2
    /\ \E j \in 1..2 :
          /\ m.cands[j].music_id = m.fps[2].k
          /\ m.cands[3 - j].music_id = m.fps[1].k
          /\ m.hashes[1][j] /\ m.hashes[2][3 - j]
          /\ ~m.hashes[1][3 - j] /\ ~m.hashes[2][j]

\* the second song was fingerprinted first, each song with its own content,
\* and a poll that corrected a later exchange stored the list second song first
C1_Reordered ==
    \E r \in Runs :
       /\ Exchanged(obs[r].match)
       /\ obs[r].match.swapped
       /\ Len(store[r].songs) = 2
       /\ store[r].songs[1].music_id = store[r].song_ids[2]
       /\ store[r].songs[2].music_id = store[r].song_ids[1]
       /\ store[r].songs[1].audio # store[r].songs[2].audio

\* C2 (swap correction round trip): when the candidates hash-match the
\* originals under exchanged music_ids, match() answers swapped = TRUE with
\* output[i].music_id the i-th original key and output[i].audio the candidate
\* whose hash equals that original's; the poll persists that list before any
\* row exists, and it is the list the later steps use.
C2_SwapCorrection ==
    \A r \in Runs :
       Exchanged(obs[r].match) =>
          LET m == obs[r].match
          IN  /\ m.swapped
              /\ Len(m.songs) = 2
              /\ \A i \in 1..2 :
                    /\ m.songs[i].music_id = m.fps[i].k
                    /\ \E j \in 1..2 : m.hashes[i][j] /\ m.songs[i].audio = m.cands[j].audio
              /\ obs[r].snapshot /\ obs[r].songs = m.songs
              /\ Stored(r) => store[r].songs = m.songs
              /\ pc[r] \in {"pollStreaming", "pollComplete", "sleepComplete"} => d1[r] = <<>>
              /\ (obs[r].outcome = "pass" /\ pc[r] \notin {"failed", "aborted"}) =>
                    loc[r].songs = m.songs
              /\ d1[r] # <<>> =>
                    /\ d1[r][1].Song_1 = m.fps[1].k
                    /\ d1[r][1].Song_2 = m.fps[2].k

\* a run wrote its row after its last poll corrected an exchange
C2_Witness ==
    \E r \in Runs :
       /\ Exchanged(obs[r].match)
       /\ obs[r].match.swapped
       /\ obs[r].outcome = "pass"
       /\ d1[r] # <<>>

\* C6 (fatal abort): after a poll whose answer has a song with status < 0
\* the run has ended with the non-retryable error (the step is not attempted
\* again) and neither the row nor the aggregate of the Complete step exists.
C6_FatalAbort ==
    \A r \in Runs :
       (obs[r].polled /\ obs[r].negative) =>
          /\ pc[r] = "aborted"
          /\ d1[r] = <<>>
          /\ kv[r] = <<>> \/ kv[r][1].kind # "full"

\* a poll with a negative status ended the run
C6_Aborted ==
    \E r \in Runs : obs[r].polled /\ obs[r].negative /\ pc[r] = "aborted"

StepOrder ==
    <<"idle", "retryLoad", "validate", "savePayload", "genImage", "saveImage",
      "describe", "saveDescription", "genLyrics", "saveLyrics", "nsfw", "saveNsfw",
      "decide", "quickCheck", "genPrimary", "genFallback", "validateOrder",
      "saveSongIds", "saveSongs", "sleepStreaming", "pollStreaming",
      "sleepComplete", "pollComplete", "complete", "done">>

StepIndex(p) == CHOOSE i \in 1..Len(StepOrder) : StepOrder[i] = p

\* run r is still running or done, and past the step at position p
Beyond(r, p) ==
    /\ \E i \in 1..Len(StepOrder) : StepOrder[i] = pc[r]
    /\ StepIndex(pc[r]) > StepIndex(p)

\* the alarm has not emptied the step store of r
Kept(r) == store[r].payload # NoPayload

\* the KV aggregate the run wrote, <<>> when it has not
Archived(r) == IF kv[r] # <<>> /\ kv[r][1].kind = "full" THEN <<kv[r][1].steps>> ELSE <<>>

\* a value found in the loaded state: never asked for again from the
\* collaborator, taken as the run's own value, saved to the run's step store
\* and archived
Resumed(r, present, wasCalled, prior, own, saved, archived, produce, save) ==
    present =>
       /\ ~wasCalled
       /\ Beyond(r, produce) => own = prior
       /\ Beyond(r, save) /\ Kept(r) => saved = prior
       /\ \A a \in archived : a = prior

\* C3: in a retry run, each of image, description, lyrics and NSFW verdict
\* that the loaded state of the superseded run holds is never requested from
\* its collaborator; the loaded value is what the run saves to its own step
\* store and what the later steps use (the row's title, the archived record).
C3_Resumption ==
    \A r \in RetryRuns :
       LET rs == loc[r].retry_steps
           ar == Archived(r)
       IN  /\ Resumed(r, rs.image_base64 # "", called[r].image, rs.image_base64,
                      loc[r].image_base64, store[r].image_base64,
                      {ar[i].image_base64 : i \in 1..Len(ar)}, "genImage", "saveImage")
           /\ Resumed(r, rs.description # "", called[r].describe, rs.description,
                      loc[r].description, store[r].description,
                      {ar[i].description : i \in 1..Len(ar)}, "describe", "saveDescription")
           /\ Resumed(r, rs.lyrics.by # "", called[r].lyrics, rs.lyrics,
                      loc[r].lyrics, store[r].lyrics,
                      {ar[i].lyrics : i \in 1..Len(ar)}, "genLyrics", "saveLyrics")
           /\ Resumed(r, rs.nsfw.kind # "none", called[r].nsfw, rs.nsfw,
                      loc[r].nsfw, store[r].nsfw,
                      {ar[i].nsfw : i \in 1..Len(ar)}, "nsfw", "saveNsfw")
           /\ rs.lyrics.by # "" /\ d1[r] # <<>> => d1[r][1].Title = rs.lyrics.by

\* a retry run finished that found image and description but no lyrics
C3_Witness ==
    LET rs == loc["r1"].retry_steps
    IN  /\ pc["r1"] = "done"
        /\ rs.image_base64 # "" /\ rs.description # "" /\ rs.lyrics.by = ""
        /\ called["r1"].lyrics /\ ~called["r1"].describe /\ ~called["r1"].image
        /\ Archived("r1") # <<>>

\* the run has made no status check beyond the quick recheck
BeforeFirstPoll(r) ==
    \/ pc[r] \in {"genPrimary", "genFallback", "validateOrder", "saveSongIds", "saveSongs",
                  "sleepStreaming"}
    \/ pc[r] = "pollStreaming" /\ att[r] = 0

\* C5: the quick recheck is attempted once (it stands at attempt 0 and has
\* made no status check before, exactly one after); when the check throws,
\* reports a negative status or reports a song not complete with audio, the
\* run goes on to fresh generation without error and polls the song ids of
\* its own generation request.
C5_QuickRecheckFallback ==
    \A r \in RetryRuns :
       /\ pc[r] = "quickCheck" => att[r] = 0 /\ called[r].status = 0 /\ obs[r].quick = ""
       /\ obs[r].quick # "" /\ BeforeFirstPoll(r) => called[r].status = 1
       /\ obs[r].quick = "complete" => called[r].status = 1 /\ called[r].generate = 0
       /\ obs[r].quick \in {"threw", "negative", "incomplete"} =>
             /\ loc[r].reused = ""
             /\ pc[r] \notin {"quickCheck", "validateOrder", "saveSongs"}
             /\ pc[r] \in {"failed", "aborted"} => called[r].generate >= 1
             /\ loc[r].song_ids \in {<<>>, GenIds(r)}
             /\ Beyond(r, "genFallback") => loc[r].song_ids = GenIds(r)

\* a retry run whose quick recheck threw finished with its own songs
C5_Witness ==
    /\ obs["r1"].quick = "threw"
    /\ pc["r1"] = "done"
    /\ loc["r1"].song_ids = GenIds("r1")
    /\ d1["r1"] # <<>>

\* C9: the Complete step of a retry run deletes no mp3 whose music_id is
\* Song_1 or Song_2 of the run's row, and deletes an mp3 of the superseded
\* run only when the run's songs were freshly generated.
C9_CleanupKeepsReferenced ==
    [][\A r \in RetryRuns : \A m \in MusicIds :
          mp3[m] # "" /\ mp3'[m] = "" =>
             /\ d1'[r] # <<>> => m \notin {d1'[r][1].Song_1, d1'[r][1].Song_2}
             /\ pc[r] = "complete" /\ pc'[r] # pc[r] => loc[r].reused = ""]_vars

\* a retry run that took over the superseded run's songs after a successful
\* quick recheck finished
C9_ReusedAfterRecheck ==
    /\ pc["r1"] = "done"
    /\ loc["r1"].reused = "quick"
    /\ d1["r1"] # <<>>

\* ------------------------------------------------------------------------
\* Properties of concurrent retries (checked under SpecConc)
\* ------------------------------------------------------------------------

\* C4: a retry run whose loaded state has exactly two songs and two song
\* ids, every song with status >= 4 and audio, makes no generation request
\* and no status check, takes the loaded songs without polling
\* (needsPolling = false) and never stands at a step of the other two paths
\* or of the polling coordinator; so for each of the retries of one run.
C4_ReuseComplete ==
    \A r \in RetryRuns :
       LET rs == loc[r].retry_steps
       IN  /\ Len(rs.songs) = 2 /\ Len(rs.song_ids) = 2
           /\ \A i \in 1..Len(rs.songs) : rs.songs[i].status >= 4 /\ rs.songs[i].audio # NoUrl
           => /\ called[r].generate = 0
              /\ called[r].status = 0
              /\ ~prov[r].live
              /\ ~obs[r].polled
              /\ pc[r] \notin {"quickCheck", "genPrimary", "genFallback", "sleepStreaming",
                               "pollStreaming", "sleepComplete", "pollComplete"}
              /\ Beyond(r, "decide") =>
                    /\ loc[r].reused = "complete"
                    /\ loc[r].song_ids = rs.song_ids
                    /\ {loc[r].songs[i].music_id : i \in 1..Len(loc[r].songs)}
                          = {rs.songs[i].music_id : i \in 1..Len(rs.songs)}

\* both retries of the run finished on the loaded songs
C4_Witness ==
    \A r \in RetryRuns :
       /\ pc[r] = "done"
       /\ loc[r].reused = "complete"
       /\ loc[r].songs # <<>>
       /\ loc[r].song_ids = GenIds("r0")

\* C7: once a retry run has completed there is one row and one archived
\* record under its id and neither under the id of the run it supersedes,
\* also when the superseded run is still running and finishes later.
C7_SupersededLeavesNothing ==
    \A r \in RetryRuns :
       pc[r] = "done" =>
          /\ Len(d1[r]) = 1
          /\ Len(Archived(r)) = 1
          /\ d1[RetryOf(r)] = <<>>
          /\ kv[RetryOf(r)] = <<>>

\* a retry run completed before the run it supersedes did
C7_Overtaken ==
    /\ pc["r1"] = "done"
    /\ pc["r0"] = "complete"
    /\ d1["r1"] # <<>>

\* C8: when two retries of the same run have both completed, one row and
\* one archived record stand for the generation, not one per retry run.
C8_OneRowPerGeneration ==
    (\A r \in RetryRuns : pc[r] = "done") =>
       /\ Cardinality({r \in RetryRuns : d1[r] # <<>>}) = 1
       /\ Cardinality({r \in RetryRuns : Archived(r) # <<>>}) = 1

\* both retries of the run completed
C8_BothCompleted ==
    \A r \in RetryRuns : pc[r] = "done" /\ loc[r].retry_steps.song_ids = GenIds("r0")
\* ------------------------------------------------------------------------
\* Claims about original fingerprints (checked under Spec)
\* ------------------------------------------------------------------------

\* C11 (first-seen-wins): the original fingerprint recorded for a musicId in
\* a run's step store is the first fingerprint that was captured for that
\* musicId during the run.
C11_FirstSeenWins ==
    \A r \in Runs :
        LET fps == store[r].original_fingerprints
        IN  \A i \in 1..Len(fps) :
                /\ HasKey(obs[r].first, fps[i].k)
                /\ Lookup(obs[r].first, fps[i].k) = fps[i].fp

\* C11, second half: until the run reaches 'complete workflow' and schedules
\* the flush of its step store, a recorded original is neither replaced nor
\* removed by any step.
C11_RecordedIsKept ==
    [][\A r \in Runs :
          r \notin toFlush =>
             LET fps == store[r].original_fingerprints
             IN  \A i \in 1..Len(fps) :
                     /\ HasKey(store'[r].original_fingerprints, fps[i].k)
                     /\ Lookup(store'[r].original_fingerprints, fps[i].k) = fps[i].fp]_vars

\* a run that has polled and recorded an original for both of its songs
C11_Recorded ==
    \E r \in Runs :
        /\ Len(store[r].original_fingerprints) = 2
        /\ Len(obs[r].first) = 2
        /\ obs[r].polled

\* ------------------------------------------------------------------------
\* Claims about the start of a retry run (checked under SpecRetry)
\* ------------------------------------------------------------------------

\* 'retry workflow' has completed in run r
Loaded(r) == r \in RetryRuns /\ pc[r] \notin {"idle", "retryLoad"}

\* the run's payload from 'retry workflow' on, and what 'save payload' stored
MergedIs(r, merged) ==
    /\ loc[r].payload = merged
    /\ store[r].payload \in {NoPayload, merged}

\* C12 as stated (payload merge on retry): in the merged payload every field
\* supplied by the retry request has the request's value and every field
\* absent from the request has the prior run's value.
C12_NewPayloadWins ==
    \A r \in RetryRuns :
        (Loaded(r) /\ pc[r] # "failed") =>
            MergedIs(r, [f \in DOMAIN NoPayload |->
                            IF RetryParams(r)[f] # "" THEN RetryParams(r)[f]
                            ELSE loc[r].retry_steps.payload[f]])

\* C12 as the code has it: in the merged payload every field present in the
\* loaded prior payload has the prior run's value, and every field absent from
\* it has the retry request's value; the prior address survives a retry whose
\* request supplies another address.
C12_PriorPayloadWins ==
    \A r \in RetryRuns :
        (Loaded(r) /\ pc[r] # "failed") =>
            MergedIs(r, [f \in DOMAIN NoPayload |->
                            IF loc[r].retry_steps.payload[f] # ""
                            THEN loc[r].retry_steps.payload[f]
                            ELSE RetryParams(r)[f]])

\* a retry that has saved a merged payload whose address is the prior run's
\* and not the one its request supplied
C12_Witness ==
    \E r \in RetryRuns :
        /\ Loaded(r)
        /\ loc[r].retry_steps.payload.address = "a0"
        /\ RetryParams(r).address = "a1"
        /\ store[r].payload.address = "a0"
        /\ store[r].payload.retry_id = RetryOf(r)

\* the payload lacks a required input field
MissingInput(payload) == payload.address = "" \/ payload.prompt = ""

\* run r has written nothing and called no generation collaborator
Untouched(r) ==
    /\ store[r] = EmptySteps
    /\ called[r] = NoCalls
    /\ d1[r] = <<>> /\ kv[r] = <<>>
    /\ r \notin png /\ r \notin toFlush
    /\ obs[r] = NoObs

\* C13 (input validation abort): a run whose payload, after 'retry workflow'
\* and the merge, has no address or no prompt goes nowhere but to the abort:
\* it never gets past the validation, its step store stays empty and no
\* generation collaborator (image, description, lyrics, NSFW, songs) is called.
C13_ValidationAbort ==
    \A r \in Runs :
        (pc[r] \notin {"idle", "retryLoad"} /\ MissingInput(loc[r].payload)) =>
            /\ pc[r] \in {"validate", "aborted", "failed"}
            /\ pc[r] = "failed" => loc[r].payload = RetryParams(r)
            /\ Untouched(r)

\* a retry aborted by the validation: the loaded prior state had no payload,
\* so the merged payload has the request's address and no prompt
C13_Witness ==
    \E r \in RetryRuns :
        /\ pc[r] = "aborted"
        /\ loc[r].payload.prompt = ""
        /\ loc[r].payload.address = "a1"
        /\ att[r] = 0

\* ------------------------------------------------------------------------
\* Claims about the order of saves and calls (checked under SpecRetry)
\* ------------------------------------------------------------------------

\* run r stands at one of the steps `at`, whose callbacks make the external
\* calls that follow the save of a value: then the run's own value is set
\* and its step store holds it
WrittenAhead(r, at, set, own, saved) ==
    pc[r] \in at => set /\ saved = own

\* the six saves of run r; songIdSteps are the steps that make external
\* calls once the run has its song ids
SavedAhead(r, songIdSteps) ==
    /\ WrittenAhead(r, {"genImage"}, loc[r].payload # NoPayload,
                    loc[r].payload, store[r].payload)
    /\ WrittenAhead(r, {"describe"}, loc[r].image_base64 # "",
                    loc[r].image_base64, store[r].image_base64)
    /\ WrittenAhead(r, {"genLyrics"}, loc[r].description # "",
                    loc[r].description, store[r].description)
    /\ WrittenAhead(r, {"nsfw"}, loc[r].lyrics.by # "",
                    loc[r].lyrics, store[r].lyrics)
    /\ WrittenAhead(r, {"decide", "quickCheck", "genPrimary", "genFallback",
                        "validateOrder"},
                    loc[r].nsfw.kind # "none", loc[r].nsfw, store[r].nsfw)
    /\ WrittenAhead(r, songIdSteps \cup (IF att[r] = 0 THEN {"complete"} ELSE {}),
                    loc[r].song_ids # <<>>, loc[r].song_ids, store[r].song_ids)

\* C14 as stated (write-ahead ordering): each of payload, image, description,
\* lyrics, NSFW verdict and song ids is in the run's own step store when the
\* run stands at the next step that makes an external call, whether the value
\* was produced by this run or reused from the prior run.  For reused song
\* ids the next such step is 'validate song order', which fetches audio.
C14_WriteAheadEveryStep ==
    \A r \in Runs :
        SavedAhead(r, {"validateOrder", "saveSongs", "sleepStreaming", "pollStreaming",
                       "sleepComplete", "pollComplete"})

\* C14 as the code has it: the same, except that reused song ids are written
\* only after 'validate song order' has run; they are in the step store
\* before the media download of 'save songs' and before the final writes,
\* and fresh song ids before the first status poll.
C14_WriteAhead ==
    \A r \in Runs :
        SavedAhead(r, {"saveSongs", "sleepStreaming", "pollStreaming",
                       "sleepComplete", "pollComplete"})

\* a retry that reused the prior run's song ids, has been through 'validate
\* song order' and stands at 'save songs' with the ids in its own step store
C14_Witness ==
    \E r \in RetryRuns :
        /\ pc[r] = "saveSongs"
        /\ loc[r].reused # ""
        /\ Len(loc[r].retry_steps.original_fingerprints) = 2
        /\ store[r].song_ids = GenIds(RetryOf(r))

\* ------------------------------------------------------------------------
\* Claims about 'complete workflow' (checked under SpecFinish)
\* ------------------------------------------------------------------------

\* the stores e hold what one uninterrupted execution of the step by run r
\* leaves: the run's row, its playlist row, its KV record, and nothing of the
\* superseded run that the cleanup deletes
SameAsUninterrupted(r, e) ==
    /\ e.d1[r] = <<SmolRow(r)>>
    /\ e.kv[r] = <<Aggregate(r)>>
    /\ \A t \in PlaylistNames : <<r, t>> \in e.playlists <=> (t # "" /\ t = loc[r].playlist)
    /\ RetryOf(r) # "" =>
          /\ e.d1[RetryOf(r)] = <<>>
          /\ e.kv[RetryOf(r)] = <<>>
          /\ RetryOf(r) \notin e.png
          /\ \A m \in CleanupDeletes(loc[r].retry_steps) : e.mp3[m] = ""

\* an execution of the whole callback that ended as e did not throw and left
\* what an uninterrupted execution leaves
Reexecutes(r, e) == e.ok /\ SameAsUninterrupted(r, e)

\* C15 (Complete is idempotent under step retry): whenever a run stands at
\* 'complete workflow', after whatever prefix of the sub-actions its failed
\* attempts executed, executing the step again succeeds and leaves the same
\* rows (playlist row included), KV record and deletions as one
\* uninterrupted execution.
C15_CompleteIdempotent ==
    \A r \in Runs :
        pc[r] = "complete" => Reexecutes(r, CompleteEffects(r, CompleteSubActions, TRUE))

\* the part of C15 that holds: the stores a re-execution leaves, whether or
\* not it throws, are those of an uninterrupted execution
C15_SameStores ==
    \A r \in Runs :
        pc[r] = "complete" =>
            SameAsUninterrupted(r, CompleteEffects(r, CompleteSubActions, TRUE))

\* a run back at 'complete workflow' after an attempt that failed once the
\* playlist row was inserted
C15_Reexecuting ==
    \E r \in Runs :
        /\ pc[r] = "complete"
        /\ att[r] > 0
        /\ loc[r].playlist # ""
        /\ <<r, loc[r].playlist>> \in playlists

\* ------------------------------------------------------------------------
\* Claims about the lyrics step (checked under SpecLyrics)
\* ------------------------------------------------------------------------

\* lyrics with a title, a body and at least two style tags, or none at all
Acceptable(l) == l = NoLyrics \/ (l.title /\ l.lyrics /\ l.styles >= 2)

\* every place of run r that can hold lyrics: the local variable, the step
\* store, the KV record and (by its title) the row
LyricsHeld(r) ==
    {loc[r].lyrics, store[r].lyrics}
       \cup {kv[r][i].steps.lyrics : i \in {j \in 1..Len(kv[r]) : kv[r][j].kind = "full"}}

\* C16 (incomplete lyrics rejected): a step in which the lyrics collaborator
\* answers with an empty title, an empty body or fewer than two style tags
\* is a failed attempt of 'generate lyrics' that is retried (the run stays at
\* the step, or ends failed once the attempts are used up, never aborted) and
\* changes neither the run's locals nor any store; and no lyrics but complete
\* ones are ever held in the locals, the step store or the final record, nor
\* present when the NSFW check or song generation is reached.
C16_IncompleteLyricsRejected ==
    [][\A r \in Runs :
          /\ called'[r].rejected # called[r].rejected =>
                /\ ~(called'[r].rejected.title /\ called'[r].rejected.lyrics
                     /\ called'[r].rejected.styles >= 2)
                /\ pc[r] = "genLyrics"
                /\ IF att[r] < ConfigLimit
                   THEN pc'[r] = "genLyrics" /\ att'[r] = att[r] + 1
                   ELSE pc'[r] = "failed"
                /\ UNCHANGED <<loc, store, d1, playlists, kv, mp3, png, prov>>
          /\ \A l \in LyricsHeld(r)' : Acceptable(l)
          /\ pc'[r] \in {"nsfw", "saveNsfw", "decide", "genPrimary", "genFallback"} =>
                loc'[r].lyrics # NoLyrics
          /\ d1'[r] # <<>> => d1'[r][1].Title = loc'[r].lyrics.by /\ loc'[r].lyrics.title]_vars

\* a run that finished although each kind of incomplete answer was possible
\* and at least one answer with a single style tag was rejected on the way
C16_Witness ==
    /\ pc["r0"] = "done"
    /\ called["r0"].rejected.styles = 1
    /\ called["r0"].rejected.title
    /\ d1["r0"] # <<>>

\* ------------------------------------------------------------------------
\* Claims about match() (checked under SpecMatch)
\* ------------------------------------------------------------------------

\* in the call recorded as m every candidate hash-matches the original
\* recorded under the candidate's own musicId
OwnHashMatch(m) ==
    \A j \in 1..Len(m.cands) :
        \E i \in 1..Len(m.fps) : m.fps[i].k = m.cands[j].music_id /\ m.hashes[i][j]

\* the call returned a list with an entry that is no candidate of the input:
\* a candidate's audio under another musicId
Reassigned(m) ==
    \E i \in 1..Len(m.songs) : \A j \in 1..Len(m.cands) : m.songs[i] # m.cands[j]

\* C17 as stated (no-op when unswapped): when every candidate hash-matches
\* the original recorded under its own musicId, match() returns
\* swapped = false and the input list unchanged in order and content,
\* whatever the order in which the originals were recorded.
C17_NoOpWhenUnswapped ==
    \A r \in Runs :
        LET m == obs[r].match
        IN  (m.called /\ OwnHashMatch(m)) => ~m.swapped /\ m.songs = m.cands

\* the originals of call m were recorded in the order of its candidates
InOriginalOrder(m) ==
    /\ Len(m.fps) = Len(m.cands)
    /\ \A i \in 1..Len(m.fps) : m.fps[i].k = m.cands[i].music_id

\* in call m a candidate hash-matches an original exactly when it carries
\* that original's musicId
OnlyOwnHashMatch(m) ==
    \A i \in 1..Len(m.fps) : \A j \in 1..Len(m.cands) :
        m.hashes[i][j] <=> m.fps[i].k = m.cands[j].music_id

\* C17 as the code has it: when every candidate hash-matches the original
\* recorded under its own musicId and the candidates come in the order in
\* which the originals were recorded, match() returns swapped = false and
\* the input list unchanged.  When the originals were recorded in another
\* order and each candidate matches its own original only, swapped is false
\* and the output holds the same entries in the order of the originals.
C17_NoOpInOriginalOrder ==
    \A r \in Runs :
        LET m == obs[r].match
        IN  /\ (m.called /\ OwnHashMatch(m) /\ InOriginalOrder(m))
                  => ~m.swapped /\ m.songs = m.cands
            /\ (m.called /\ OnlyOwnHashMatch(m))
                  => /\ ~m.swapped
                     /\ Len(m.songs) = Len(m.fps)
                     /\ \A i \in 1..Len(m.songs) :
                           /\ m.songs[i].music_id = m.fps[i].k
                           /\ \E j \in 1..Len(m.cands) : m.songs[i] = m.cands[j]

\* a call whose two candidates differ in content, each matching its own
\* original, listed in the order in which the originals were recorded
C17_Witness ==
    LET m == obs["r0"].match
    IN  /\ m.called /\ OnlyOwnHashMatch(m) /\ InOriginalOrder(m)
        /\ Len(m.cands) = 2
        /\ m.songs = m.cands

\* ------------------------------------------------------------------------
\* C18: the three outcomes of decideSongsStrategy
\* ------------------------------------------------------------------------

\* the positions of a run inside decideSongsStrategy
DecideSteps ==
    {"decide", "quickCheck", "validateOrder", "saveSongIds", "saveSongs",
     "genPrimary", "genFallback"}

\* this step takes run r out of decideSongsStrategy
DecideEnds(r) == pc[r] \in DecideSteps /\ pc'[r] \notin DecideSteps

\* ... because a step of it has used up its attempts and the error leaves
\* the function
DecideThrows(r) ==
    /\ pc[r] \in {"genFallback", "saveSongIds", "saveSongs"}
    /\ att[r] = ConfigLimit
    /\ pc'[r] = "failed"

\* the workflow's test of songsDecision.needsPolling: polling comes next
needsPolling(r) == pc'[r] = "sleepStreaming"

\* path 1 returned
ReuseComplete(r) ==
    /\ hasCompleteSongs(loc[r].retry_steps)
    /\ obs[r].quick = ""
    /\ pc[r] = "saveSongs" /\ pc'[r] = "complete"
    /\ loc[r].song_ids = loc[r].retry_steps.song_ids

\* path 2 returned: the one status check found every song complete
QuickRecheck(r) ==
    /\ hasPendingSongIds(loc[r].retry_steps)
    /\ obs[r].quick = "complete"
    /\ called[r].status = 1
    /\ pc[r] = "saveSongs" /\ pc'[r] = "complete"
    /\ loc[r].song_ids = loc[r].retry_steps.song_ids

\* path 3 returned: not path 1, the quick recheck (if any) did not succeed,
\* and the ids are those of this run's generation
FreshGeneration(r) ==
    /\ ~hasCompleteSongs(loc[r].retry_steps)
    /\ hasPendingSongIds(loc[r].retry_steps)
           <=> obs[r].quick \in {"negative", "incomplete", "threw"}
    /\ obs[r].quick # "complete"
    /\ pc[r] = "saveSongIds" /\ pc'[r] = "sleepStreaming"
    /\ loc[r].song_ids = GenIds(r)

\* how many of the three outcomes describe this step
Outcomes(r) ==
    Cardinality({o \in {"reuse", "quick", "fresh"} :
                    \/ o = "reuse" /\ ReuseComplete(r)
                    \/ o = "quick" /\ QuickRecheck(r)
                    \/ o = "fresh" /\ FreshGeneration(r)})

\* exactly one outcome; needsPolling is true exactly when a generation call
\* of this run succeeded, and no generation call was made when it is false
DecideReturns(r) ==
    /\ Outcomes(r) = 1
    /\ needsPolling(r) <=> FreshGeneration(r)
    /\ needsPolling(r) <=> prov[r].live
    /\ needsPolling(r) => called[r].generate >= 1
    /\ ~needsPolling(r) => called[r].generate = 0

\* C18: decide() ends through exactly one of three outcomes (reuse-complete,
\* successful quick-recheck, fresh generation) for every prior state and
\* provider behaviour; needsPolling is true exactly when a song-generation
\* call succeeded in this run, and when it is false no song-generation call
\* was made.
C18_DecideThreeOutcomes ==
    [][\A r \in Runs : DecideEnds(r) => DecideReturns(r)]_vars

\* C18 as the code has it: decide() either returns through exactly one of
\* the three outcomes, with needsPolling as stated, or ends by throwing
\* because both providers failed on every attempt or a save step used up
\* its attempts.
C18_DecideReturnsOrThrows ==
    [][\A r \in Runs : DecideEnds(r) =>
          \/ DecideThrows(r) /\ att'[r] = 0
          \/ pc'[r] # "failed" /\ DecideReturns(r)]_vars

\* a retry whose quick recheck did not succeed has generated new songs and
\* goes on to poll them
C18_Witness ==
    /\ obs["r1"].quick \in {"negative", "incomplete", "threw"}
    /\ pc["r1"] = "sleepStreaming"
    /\ prov["r1"].live
    /\ called["r1"].generate >= 1

\* ------------------------------------------------------------------------
\* C19: an unsafe verdict forces the row private
\* ------------------------------------------------------------------------

\* the NSFW verdict run r holds: retry_steps?.nsfw or the answer of its own
\* 'check nsfw'
Verdict(r) == loc[r].nsfw

\* what the creator asked for in POST /: a retry carries no `public` of its
\* own, its payload is that of the run it retries
RequestedPublic == loc["r0"].payload.public = "T"

\* C19: the row's Public flag is false whenever the NSFW verdict is a
\* structured verdict with safe = false, whatever isPublic the payload
\* requested and whether the verdict was computed by this run or reused from
\* the prior run; otherwise it equals the payload's isPublic.
C19_NsfwForcesPrivate ==
    \A r \in Runs :
        Len(d1[r]) > 0 =>
            /\ Verdict(r).kind \in NsfwKinds
            /\ Verdict(r) = loc["r0"].nsfw
            /\ Verdict(r).by = "r0"
            /\ d1[r][1].Public = IF Verdict(r).kind = "unsafe" THEN FALSE
                                 ELSE RequestedPublic

\* the row of a retry that reused an unsafe verdict is private although the
\* creator asked for a public one
C19_Witness ==
    /\ Len(d1["r1"]) > 0
    /\ loc["r0"].payload.public = "T"
    /\ called["r1"].nsfw = FALSE
    /\ Verdict("r1") = [by |-> "r0", kind |-> "unsafe"]
    /\ d1["r1"][1].Public = FALSE

\* ------------------------------------------------------------------------
\* C20: what `swapped` reports
\* ------------------------------------------------------------------------

\* the candidates of call m can be told apart by their audio, so that the
\* audio of an output entry names the candidate it came from
Distinguishable(m) ==
    \A i \in 1..Len(m.cands) : \A j \in 1..Len(m.cands) :
        i # j => m.cands[i].audio # m.cands[j].audio

\* C20: match() returns swapped = true if and only if the returned list
\* assigns at least one candidate's audio to a musicId different from the
\* one that candidate carried in the input; in particular swapped is false
\* whenever the unmodified input list is returned.
C20_SwappedIffReassigned ==
    \A r \in Runs :
        LET m == obs[r].match
        IN  (m.called /\ Distinguishable(m))
                => /\ m.swapped <=> Reassigned(m)
                   /\ m.songs = m.cands => ~m.swapped

\* the same for calls whose originals were recorded in the candidates' order
C20_InOrderOnly ==
    \A r \in Runs :
        LET m == obs[r].match
        IN  (m.called /\ Distinguishable(m) /\ InOriginalOrder(m))
                => /\ m.swapped <=> Reassigned(m)
                   /\ m.songs = m.cands => ~m.swapped

\* a call on two candidates with different audio that returned an entry
\* under another musicId and reported swapped = false
C20_Witness ==
    LET m == obs["r0"].match
    IN  /\ m.called
        /\ Len(m.cands) = 2 /\ Distinguishable(m)
        /\ NoUrl \notin {m.cands[1].audio, m.cands[2].audio}
        /\ Reassigned(m)
        /\ ~m.swapped

\* ------------------------------------------------------------------------
\* C21: when a step store is flushed
\* ------------------------------------------------------------------------

\* the row and the aggregate of run r are both written
Persisted(r) ==
    /\ d1[r] # <<>>
    /\ kv[r] # <<>> /\ kv[r][1].kind = "full"

\* a retry of run r has written its row and aggregate
Superseded(r) == \E q \in Runs : RetryOf(q) = r /\ Persisted(q)

\* this step marks the store of run r for flushing, or flushes it
FlushedOrMarked(r) ==
    \/ r \notin toFlush /\ r \in toFlush'
    \/ store[r] # EmptySteps /\ store'[r] = EmptySteps

\* C21: a run's step store is flushed, or marked for flushing, only after
\* both the row and the key/value aggregate of that run have been written,
\* or when a retry that supersedes it completes; it is never flushed while
\* the run can still fail before its final persistence.
C21_FlushOnlyAfterPersistence ==
    [][\A r \in Runs :
          FlushedOrMarked(r) =>
              /\ Persisted(r)' \/ Superseded(r)'
              /\ store'[r] = EmptySteps => pc[r] \notin {"complete"} \/ Superseded(r)']_vars

\* a run that reached 'complete workflow' has failed with neither row nor
\* aggregate written, and its step store is gone
C21_Witness ==
    /\ pc["r0"] = "failed"
    /\ Len(loc["r0"].songs) = 2
    /\ d1["r0"] = <<>>
    /\ kv["r0"] = <<>> \/ kv["r0"][1].kind # "full"
    /\ store["r0"] = EmptySteps

\* ------------------------------------------------------------------------
\* A fresh run whose songs may still be buffering when they are fetched
\* ------------------------------------------------------------------------

\* an audio fetch fails, delivers the full range or delivers fewer bytes
\* than the minimum; no step throws by itself
BufferingWorld == [nsfw |-> {"safe"}, fetch |-> {"err", "short", "full"}, faults |-> {}]

\* the provider moves audio to other URLs while the songs start streaming
\* (Spec has it do so in the completion phase as well)
StreamingUrlChanges(r) == IF pc[r] = "pollStreaming" THEN MaxUrlChanges ELSE 0

NextPoll ==
    \/ PostSmol("r0", "T", "")
    \/ FreshStep("r0", BufferingWorld)
    \/ Provider("r0", StreamingUrlChanges("r0"))
    \/ Alarm("r0")

SpecPoll == Init /\ [][NextPoll]_vars

\* ------------------------------------------------------------------------
\* C22: the fingerprint attempt protocol
\* ------------------------------------------------------------------------

\* this step is an attempt of one of run r's polling steps
PollStep(r) ==
    /\ pc[r] \in {"pollStreaming", "pollComplete"}
    /\ att'[r] # att[r] \/ pc'[r] # pc[r]

\* the attempt counter stored for song m of run r
Attempts(r, m) == store[r].fingerprint_attempts[m]

\* song m has audio at a URL other than its last known one
HasNewUrl(r, m) ==
    \E i \in 1..Len(getSongs(loc[r].song_ids)) :
        LET song == getSongs(loc[r].song_ids)[i]
        IN  /\ song.music_id = m
            /\ song.audio # NoUrl
            /\ song.audio # store[r].last_known_urls[m]

\* C22: for a song with a new or changed URL, each of the first four
\* fingerprint attempts that raises InsufficientData increments the song's
\* attempt counter, persists it before the error leaves the poll, and fails
\* the poll; the fifth attempt is made with minBytesRequired = 0 and cannot
\* raise InsufficientData, so the stored counter never exceeds four.
C22_AttemptProtocol ==
    [][\A r \in Runs :
          /\ \A m \in MusicIds : Attempts(r, m)' <= MAX_FINGERPRINT_ATTEMPTS - 1
          /\ (PollStep(r) /\ obs'[r].detect = "insufficient") =>
                /\ \E m \in MusicIds :
                      /\ HasNewUrl(r, m)
                      /\ Attempts(r, m) < MAX_FINGERPRINT_ATTEMPTS - 1
                      /\ Attempts(r, m)' = Attempts(r, m) + 1
                      /\ \A n \in MusicIds \ {m} : Attempts(r, n)' \in {Attempts(r, n), 0}
                /\ obs'[r].outcome = "fail"
                /\ pc'[r] \in {pc[r], "failed"}
                /\ loc'[r] = loc[r]
          /\ (PollStep(r) /\ obs'[r].detect # "insufficient") =>
                \A m \in MusicIds : Attempts(r, m)' \in {Attempts(r, m), 0}]_vars

\* a song's counter stands at four, and the poll that follows fingerprints
\* it from fewer bytes than the minimum
C22_Witness ==
    \E m \in MusicIds :
        /\ Attempts("r0", m) = 0
        /\ obs["r0"].detect = "ok"
        /\ \E i \in 1..Len(obs["r0"].first) :
              /\ obs["r0"].first[i].k = m
              /\ obs["r0"].first[i].fp.byteLength = ShortLen

\* ------------------------------------------------------------------------
\* A fresh run whose two songs are shorter than the fingerprint minimum
\* ------------------------------------------------------------------------

\* every audio fetch succeeds with fewer bytes than the minimum
ShortWorld == [nsfw |-> {"safe"}, fetch |-> {"short"}, faults |-> {}]

\* the provider reports an audio URL for both songs of generation g
BothHaveAudio(g) ==
    /\ prov[g].live
    /\ \A i \in 1..Len(prov[g].songs) : prov[g].songs[i].audio # NoUrl

\* the steps of a fresh run up to and including 'wait for streaming'
StreamingStep(r, w) ==
    \/ Validate(r)
    \/ SavePayload(r, w.faults)
    \/ GenerateImage(r, w.faults)
    \/ SaveImage(r, w.faults)
    \/ DescribeImage(r, w.faults)
    \/ SaveDescription(r, w.faults)
    \/ GenerateLyrics(r, w.faults)
    \/ SaveLyrics(r, w.faults)
    \/ CheckNsfw(r, w.nsfw, w.faults)
    \/ SaveNsfw(r, w.faults)
    \/ Decide(r)
    \/ GeneratePrimary(r, w.faults)
    \/ SaveSongIds(r, w.faults)
    \/ SleepStreaming(r)
    \/ PollStreaming(r, w.fetch, w.faults)

\* the streaming poll is attempted only while both songs have audio
NextShort ==
    \/ PostSmol("r0", "T", "")
    \/ /\ pc["r0"] = "pollStreaming" => BothHaveAudio("r0")
       /\ StreamingStep("r0", ShortWorld)
    \/ Provider("r0", 0)

SpecShort == Init /\ [][NextShort]_vars

\* C23: short songs do not block the run: when both songs have audio URLs
\* at every poll, neither ever buffers the minimum and every other fetch
\* succeeds, the streaming-phase step succeeds within its retry budget (it
\* never uses up its attempts).
C23_ShortSongsPass ==
    \A r \in Runs : ~(pc[r] = "failed" /\ obs[r].polled /\ obs[r].mode = "streaming")

\* the streaming step has used up its attempts on songs that never had a
\* negative status; the last attempt raised InsufficientData
C23_Witness ==
    /\ pc["r0"] = "failed"
    /\ obs["r0"].mode = "streaming"
    /\ obs["r0"].detect = "insufficient"
    /\ BothHaveAudio("r0")

\* ------------------------------------------------------------------------
\* C24: when swap detection calls the matcher, and what it leaves alone
\* ------------------------------------------------------------------------

\* some song of run r has audio at a URL other than its last known one
UrlDiffers(r) == \E m \in MusicIds : HasNewUrl(r, m)

\* the three maps of swap detection stored for run r
DetectionMaps(r) ==
    <<store[r].original_fingerprints, store[r].last_known_urls,
      store[r].fingerprint_attempts>>

\* a poll in which no URL differs: nothing of swap detection changes, no
\* fetch can fail it, and the snapshot has the songs in the provider's order
PollFrame(r) ==
    (PollStep(r) /\ ~UrlDiffers(r)) =>
        /\ DetectionMaps(r)' = DetectionMaps(r)
        /\ ~obs'[r].match.called
        /\ obs'[r].detect \in {"ok", "none"}
        /\ obs'[r].snapshot => obs'[r].songs = getSongs(loc[r].song_ids)

\* C24: in a poll the matcher is invoked if and only if at least one song's
\* audio URL differs from its last known URL (or none is recorded) and
\* exactly two original fingerprints exist; a poll in which every song's URL
\* equals its last known URL leaves originalFingerprints, lastKnownUrls,
\* fingerprintAttempts and the song order unchanged and performs no
\* fingerprint fetch.
C24_MatcherTrigger ==
    [][\A r \in Runs :
          /\ PollStep(r) =>
                (obs'[r].match.called <=>
                    UrlDiffers(r) /\ Len(store'[r].original_fingerprints) = 2)
          /\ PollFrame(r)]_vars

\* C24 as the code has it: the matcher is invoked if and only if a URL
\* differs, the poll's fingerprint captures all went through (swap
\* detection was reached and did not raise) and exactly two original
\* fingerprints exist after them; the frame is as stated.
C24_MatcherTriggerAfterCapture ==
    [][\A r \in Runs :
          /\ PollStep(r) =>
                (obs'[r].match.called <=>
                    /\ UrlDiffers(r)
                    /\ obs'[r].detect = "ok"
                    /\ Len(store'[r].original_fingerprints) = 2)
          /\ PollFrame(r)]_vars

\* the matcher was invoked in a poll that met a reassigned URL
C24_Witness ==
    /\ obs["r0"].match.called
    /\ prov["r0"].changes > 0
    /\ \E m \in MusicIds : store["r0"].last_known_urls[m] \in {"u3", "u4"}

\* ------------------------------------------------------------------------
\* C25: swap detection on every poll that has audio
\* ------------------------------------------------------------------------

\* C25: swap detection runs on every poll in which any song has audio, in
\* the streaming and in the completion phase and whichever provider
\* generated the songs, before that poll's snapshot is persisted: the last
\* poll of a run, if its answer had audio, went through swap detection, and
\* wrote its snapshot only after swap detection had returned.
C25_DetectionOnEveryPoll ==
    \A r \in Runs :
        (obs[r].polled /\ obs[r].audio) =>
            /\ obs[r].detect # "none"
            /\ obs[r].snapshot => obs[r].detect = "ok"

\* a poll of songs from the fallback provider, all with audio and none
\* failed, wrote its snapshot without swap detection
C25_Witness ==
    /\ loc["r0"].source = "diffrhythm"
    /\ obs["r0"].polled /\ obs["r0"].audio /\ ~obs["r0"].negative
    /\ obs["r0"].snapshot
    /\ obs["r0"].detect = "none"

\* ------------------------------------------------------------------------
\* Failures inside match() (checked under SpecMatch)
\* ------------------------------------------------------------------------

\* candidate j of call m could not be fingerprinted in the hash pass: it has
\* no audio or its fetch failed
FailedCandidate(m, j) == m.fresh[j].kind = "err"

\* the hash pass of call m matched nothing, so that both originals and both
\* candidates went on to the duration pass
DurationPass(m) ==
    /\ Len(m.fps) = 2 /\ Len(m.cands) = 2
    /\ \A i \in 1..2 : \A j \in 1..2 : ~m.hashes[i][j]

\* the duration pass of call m could not fingerprint one of its candidates
DurationFailed(m) == DurationPass(m) /\ \E j \in 1..2 : m.fresh[j].kind # "fp"

\* every candidate of call m is returned under the musicId it came with
KeepsIdentity(m) ==
    \A j \in 1..Len(m.cands) : \E i \in 1..Len(m.songs) : m.songs[i] = m.cands[j]

\* C26: match() never raises: for every combination of fingerprint failures
\* it returns a result with an entry per candidate; after a candidate that
\* failed it goes on to the next one, which is assigned when its hash
\* matches; and when the duration pass cannot fingerprint a remaining
\* candidate, every candidate keeps the musicId it came with.
C26_FailuresKeepIdentity ==
    \A r \in Runs :
        LET m == obs[r].match
        IN  m.called =>
              /\ Len(m.songs) = Len(m.cands)
              /\ (FailedCandidate(m, 1) /\ m.hashes[1][2]) =>
                    m.songs[1] = [m.cands[2] EXCEPT !.music_id = m.fps[1].k]
              /\ DurationFailed(m) => KeepsIdentity(m)

\* a call whose duration pass failed on a candidate and which returned a
\* candidate's audio under the other musicId
C26_Witness ==
    LET m == obs["r0"].match
    IN  /\ m.called /\ Distinguishable(m)
        /\ DurationFailed(m)
        /\ FailedCandidate(m, 1)
        /\ ~KeepsIdentity(m)

\* ------------------------------------------------------------------------
\* The duration pass of match() (checked under SpecMatch)
\* ------------------------------------------------------------------------

\* the duration pass of call m fingerprinted both candidates
DurationCompared(m) == DurationPass(m) /\ \A j \in 1..2 : m.fresh[j].kind = "fp"

\* seconds between the original recorded under id and candidate j of call m
DurationGap(m, id, j) ==
    Abs(OrZero(Lookup(m.fps, id).duration) - OrZero(m.fresh[j].fp.duration))

\* total gap when every candidate keeps the musicId it came with
IdentityDiff(m) ==
    DurationGap(m, m.cands[1].music_id, 1) + DurationGap(m, m.cands[2].music_id, 2)

\* total gap when the two candidates exchange their musicIds
ExchangedDiff(m) ==
    DurationGap(m, m.cands[2].music_id, 1) + DurationGap(m, m.cands[1].music_id, 2)

\* call m returned each candidate's audio under the other candidate's musicId
IdentitiesExchanged(m) ==
    \A j \in 1..2 : \E i \in 1..Len(m.songs) :
        m.songs[i] = [m.cands[j] EXCEPT !.music_id = m.cands[3 - j].music_id]

\* a hash match of call m between an original and a candidate that carries
\* another musicId
HashExchange(m) ==
    \E i \in 1..Len(m.fps) : \E j \in 1..Len(m.cands) :
        m.hashes[i][j] /\ m.fps[i].k # m.cands[j].music_id

\* C27 (duration fallback): the duration pass runs only when both originals
\* and both candidates are unmatched after the hash pass; when it
\* fingerprints both candidates it exchanges their identities if and only if
\* the total duration gap of the exchanged assignment is strictly smaller
\* than that of the identity-preserving one, a missing duration counting as
\* 0, and otherwise every candidate keeps its musicId.
C27_DurationFallback ==
    \A r \in Runs :
        LET m == obs[r].match
        IN  (m.called /\ Distinguishable(m)) =>
              /\ (~DurationPass(m) /\ m.swapped) => HashExchange(m)
              /\ DurationCompared(m) =>
                    /\ IdentitiesExchanged(m) <=> ExchangedDiff(m) < IdentityDiff(m)
                    /\ m.swapped <=> IdentitiesExchanged(m)
                    /\ ~IdentitiesExchanged(m) => KeepsIdentity(m)

\* a duration pass that fingerprinted both candidates, found the two
\* assignments equally close, and returned the candidates exchanged
C27_Witness ==
    LET m == obs["r0"].match
    IN  /\ m.called /\ Distinguishable(m)
        /\ DurationCompared(m)
        /\ ExchangedDiff(m) = IdentityDiff(m)
        /\ IdentitiesExchanged(m) /\ ~m.swapped

\* ------------------------------------------------------------------------
\* Whose step store a run touches (checked under SpecConc)
\* ------------------------------------------------------------------------

\* run r executes in this step: an attempt of one of its steps ends
RunActs(r) == pc'[r] # pc[r] \/ att'[r] # att[r]

\* this step is the flush alarm of g's Durable Object and no run's
FlushAlarm(g) ==
    /\ g \in toFlush
    /\ store'[g] = EmptySteps
    /\ \A r \in Runs : ~RunActs(r)

\* C28 (step-store ownership): in any interleaving of concurrent runs, a
\* retry run and the run it supersedes included, the step store of a run
\* changes only in a step of that run or when its flush alarm fires; a run's
\* store is marked for flushing only by the Complete step of that run or of
\* a run that retries it; and a run reads another run's store only in
\* RetryLoad.
C28_StoreOwnership ==
    [][\A g \in Runs :
         /\ store'[g] # store[g] => RunActs(g) \/ FlushAlarm(g)
         /\ (g \in toFlush' /\ g \notin toFlush) =>
               \E r \in Runs : RunActs(r) /\ pc[r] = "complete" /\ (r = g \/ RetryOf(r) = g)
         /\ loc'[g].retry_steps # loc[g].retry_steps =>
               /\ pc[g] = "retryLoad"
               /\ loc'[g].retry_steps \in {store[RetryOf(g)], KvSteps(RetryOf(g))}]_vars

\* both retry runs have saved steps into their own stores while the run they
\* retry is still at its Complete step with its store in place
C28_Witness ==
    /\ pc["r0"] = "complete"
    /\ store["r0"].song_ids # <<>>
    /\ store["r1"].payload # NoPayload /\ store["r1"].lyrics # NoLyrics
    /\ store["r2"].payload # NoPayload
    /\ loc["r1"].retry_steps = store["r0"]

\* ------------------------------------------------------------------------
\* What a retry run leaves of the run it retries (checked under SpecRetry)
\* ------------------------------------------------------------------------

\* step store, row, key/value record and image blob of run g are, after this
\* step, what they were before it
SameRecords(g) ==
    /\ store'[g] = store[g]
    /\ d1'[g] = d1[g]
    /\ kv'[g] = kv[g]
    /\ (g \in png') <=> (g \in png)

\* what run g owns is in the state st it was in when the retry started
AsStarted(g, st) ==
    /\ store[g] = st.store[g]
    /\ d1[g] = st.d1[g]
    /\ kv[g] = st.kv[g]
    /\ (g \in png) <=> (g \in st.png)
    /\ \A i \in 1..Len(GenIds(g)) : mp3[GenIds(g)[i]] = st.mp3[GenIds(g)[i]]

\* C29 as stated: once a retry run has failed or aborted in a step before
\* its Complete step, the retried run's step store, row, key/value record
\* and media blobs are exactly what they were when the retry run started.
C29_FailedRetryLeavesStart ==
    [][\A r \in RetryRuns :
         (pc[r] # "complete" /\ pc'[r] \in {"failed", "aborted"} /\ pc[r] # pc'[r]) =>
            (\E k \in PriorKinds : AsStarted(RetryOf(r), PriorState(k)))']_vars

\* C29 as the code has it: every step of a retry run before its Complete
\* step, a failing one included, leaves the retried run's step store, row,
\* key/value record and image blob as they were and neither removes nor
\* replaces a song blob; it may store the blob of a reused song that had none.
C29_RetryOnlyAddsBlobs ==
    [][\A r \in RetryRuns :
         (RunActs(r) /\ pc[r] # "complete") =>
            /\ SameRecords(RetryOf(r))
            /\ \A m \in MusicIds : mp3'[m] = mp3[m] \/ mp3[m] = ""]_vars

\* the retry run failed in step 'save songs' after it stored the blob of the
\* retried run's first song; the retried run's records are in place
C29_Witness ==
    /\ pc["r1"] = "failed"
    /\ loc["r1"].reused # "" /\ loc["r1"].songs # <<>>
    /\ "r1" \notin toFlush /\ d1["r1"] = <<>>
    /\ store["r1"].songs = loc["r1"].songs
    /\ loc["r1"].songs[1].music_id = "A" /\ mp3["A"] # "" /\ mp3["B"] = ""
    /\ store["r0"] = loc["r1"].retry_steps /\ store["r0"] # EmptySteps

\* ------------------------------------------------------------------------
\* Termination (checked under SpecRetryLive)
\* ------------------------------------------------------------------------

\* the retry limit of the step at position p: the quick recheck has none,
\* and the positions that are no step.do are never attempted again
StatedLimit(p) ==
    CASE p = "pollStreaming" -> 5
      [] p = "pollComplete"  -> 6
      [] p = "genImage"      -> 6
      [] p \in {"idle", "validate", "decide", "quickCheck", "sleepStreaming",
                "sleepComplete", "done", "failed", "aborted"} -> 0
      [] OTHER               -> 5

\* run r has ended: Complete, a non-retryable abort, or retries exhausted
Ended(r) == pc[r] \in {"done", "aborted", "failed"}

\* an attempt of the step run r is at ends: the run moves to another
\* position or the attempt is counted
Attempt(r) ==
    /\ pc[r] # "idle" /\ ~Ended(r)
    /\ \E p \in {StepOrder[i] : i \in 1..Len(StepOrder)} \cup {"failed", "aborted"},
          a \in 0..CompleteLimit :
          /\ pc' = [pc EXCEPT ![r] = p]
          /\ att' = [att EXCEPT ![r] = a]
          /\ p # pc[r] \/ a # att[r]

\* The Workflows engine runs the step of an instance that is due, and the
\* next attempt of a failed step after its delay: a run that has started and
\* not ended does not wait forever for its next attempt.
SpecRetryLive == SpecRetry /\ WF_<<pc, att>>(Attempt("r1"))

\* C30 (termination): no step is retried beyond its limit (streaming poll 5,
\* completion poll 6, image generation 6, quick recheck none, other steps
\* 5); a run never goes back to an earlier step; the status check is called
\* only by an attempt of the quick recheck or of a poll step, so that a run
\* makes a bounded number of such calls; and every run that has started
\* ends in Complete, a non-retryable abort or a retries-exhausted failure.
C30_BoundedAttemptsAndTermination ==
    /\ [](\A r \in Runs : att[r] <= StatedLimit(pc[r]))
    /\ [][\A r \in Runs :
            /\ pc'[r] # pc[r] => Ended(r)' \/ StepIndex(pc'[r]) > StepIndex(pc[r])
            /\ called'[r].status # called[r].status =>
                  RunActs(r) /\ pc[r] \in {"quickCheck", "pollStreaming", "pollComplete"}]_vars
    /\ (pc["r1"] # "idle") ~> Ended("r1")

\* the retry run has used up every attempt of its completion poll
C30_Witness ==
    /\ pc["r1"] = "pollComplete"
    /\ att["r1"] = 6
    /\ loc["r1"].retry_steps # EmptySteps
    /\ obs["r1"].polled /\ obs["r1"].mode = "complete" /\ obs["r1"].outcome = "fail"

\* ------------------------------------------------------------------------
\* What a reuse path hands on (checked under SpecRetry)
\* ------------------------------------------------------------------------

\* retry run r took a reuse path, from a prior state with two original
\* fingerprints, and has saved its songs; 'complete workflow' has not begun
ReusedWithOriginals(r) ==
    /\ loc[r].reused # ""
    /\ pc[r] = "complete" /\ att[r] = 0
    /\ Len(loc[r].retry_steps.original_fingerprints) = 2

\* C31: whenever a retry run reuses a prior run's songs (complete songs, or
\* a successful quick recheck), the original fingerprints recorded for those
\* musicIds are what its order validation uses, and they are in the retry
\* run's own step store afterwards, for a later retry of that run.
C31_FingerprintsFollowReuse ==
    \A r \in RetryRuns :
        ReusedWithOriginals(r) =>
           /\ obs[r].match.called
           /\ obs[r].match.fps = loc[r].retry_steps.original_fingerprints
           /\ store[r].original_fingerprints = loc[r].retry_steps.original_fingerprints

\* the retry run validated the order of reused songs against the prior
\* run's two fingerprints and its own step store holds none
C31_Witness ==
    /\ ReusedWithOriginals("r1")
    /\ obs["r1"].match.called
    /\ store["r1"].songs = loc["r1"].songs
    /\ store["r1"].original_fingerprints = <<>>

\* ------------------------------------------------------------------------
\* Fresh generation: the two providers (checked under SpecRetry)
\* ------------------------------------------------------------------------

\* the provider that the generation step at position p asks
ProviderAt(p) == IF p = "genPrimary" THEN "aisonggenerator" ELSE "diffrhythm"

\* run r is between its generation and the end of its polls
Polling(r) == pc[r] \in {"sleepStreaming", "pollStreaming", "sleepComplete", "pollComplete"}

\* C32 (provider fallback ordering): the fallback provider is asked only
\* after the primary generation step has failed on the last of its six
\* attempts; song ids are obtained once per run, in a generation step, and
\* the source recorded with them names the provider that step asked; and
\* while the run polls, those ids are in its step store.
C32_FallbackOrdering ==
    /\ [][\A r \in Runs :
            /\ (pc'[r] = "genFallback" /\ pc[r] # "genFallback") =>
                  pc[r] = "genPrimary" /\ att[r] = ConfigLimit
            /\ (loc'[r].reused = "" /\ loc'[r].song_ids # loc[r].song_ids) =>
                  /\ pc[r] \in {"genPrimary", "genFallback"}
                  /\ loc[r].song_ids = <<>> /\ ~prov[r].live /\ prov'[r].live
                  /\ loc'[r].source = ProviderAt(pc[r])
                  /\ pc'[r] = "saveSongIds"
            /\ (loc'[r].reused = "" /\ loc'[r].source # loc[r].source) =>
                  loc'[r].song_ids # loc[r].song_ids]_vars
    /\ [](\A r \in Runs : Polling(r) => store[r].song_ids = loc[r].song_ids /\ loc[r].song_ids # <<>>)

\* the run polls for songs of the fallback provider, which was asked after
\* the primary provider had been asked more than once
C32_Witness ==
    /\ pc["r1"] = "pollStreaming"
    /\ loc["r1"].source = "diffrhythm"
    /\ called["r1"].generate = CallCap
    /\ called["r1"].status > 0
    /\ store["r1"].song_ids = GenIds("r1")

\* ------------------------------------------------------------------------
\* Re-execution of a retry run after a suspension
\* ------------------------------------------------------------------------

\* the host may put run r to rest: it sleeps, or a step of it waits for its
\* next attempt; step 'retry workflow' has completed
Suspended(r) ==
    \/ pc[r] \in {"sleepStreaming", "sleepComplete"}
    \/ att[r] > 0 /\ pc[r] \notin {"idle", "retryLoad", "validate", "complete",
                                   "failed", "aborted"}

\* The host re-executes run() from its first line. `retry_steps` is
\* undefined and `payload` is event.payload again; step 'retry workflow' has
\* a recorded result (undefined), so its callback, the only place that
\* assigns the two locals, does not run. The address / prompt checks follow
\* on the payload of the event.
Replay(r) ==
    /\ r \in RetryRuns
    /\ Suspended(r)
    /\ loc' = [loc EXCEPT ![r].retry_steps = EmptySteps, ![r].payload = RetryParams(r)]
    /\ pc' = [pc EXCEPT ![r] = IF RetryParams(r).address = "" \/ RetryParams(r).prompt = ""
                               THEN "aborted" ELSE @]
    /\ UNCHANGED <<att, store, toFlush, d1, playlists, kv, mp3, png, prov, called, obs>>

NextReplay ==
    \/ NextRetry
    \/ Replay("r1")

SpecReplay == InitRetry /\ [][NextReplay]_vars

\* run r has passed the address / prompt checks
Validated(r) == pc[r] \notin {"idle", "retryLoad", "validate"}

\* C33 (replay equivalence for retry runs): once a retry run has passed the
\* address / prompt checks, no step, a re-execution after a suspension
\* included, changes its merged payload or its loaded prior state or aborts
\* it with a payload that lacks the prompt, and the image, description and
\* lyrics collaborators are called only for outputs the loaded prior state
\* does not hold.
C33_ReplayEquivalence ==
    [][\A r \in RetryRuns :
          /\ Validated(r) =>
                /\ loc'[r].payload = loc[r].payload
                /\ loc'[r].retry_steps = loc[r].retry_steps
                /\ pc'[r] = "aborted" => loc'[r].payload.prompt # ""
          /\ (called'[r].image /\ ~called[r].image) => loc'[r].retry_steps.image_base64 = ""
          /\ (called'[r].describe /\ ~called[r].describe) => loc'[r].retry_steps.description = ""
          /\ (called'[r].lyrics /\ ~called[r].lyrics) => loc'[r].retry_steps.lyrics = NoLyrics]_vars

\* the retry run had saved its merged payload, prompt included, and was
\* polling for its songs when it was aborted with the payload of its event
C33_Witness ==
    /\ pc["r1"] = "aborted"
    /\ loc["r1"].payload = RetryParams("r1")
    /\ store["r1"].payload.prompt # ""
    /\ store["r1"].song_ids # <<>>
    /\ called["r1"].status > 0

\* ------------------------------------------------------------------------
\* match() as a rearrangement of its candidates (checked under SpecMatch)
\* ------------------------------------------------------------------------

\* both candidates of call m have audio
BothAudible(m) == \A j \in 1..Len(m.cands) : m.cands[j].audio # NoUrl

\* the output of call m carries every musicId once and every candidate's
\* audio once
Permutes(m) ==
    /\ Len(m.songs) = Len(m.cands)
    /\ \A i \in 1..Len(m.songs) : \A j \in 1..Len(m.songs) :
          i # j => m.songs[i].music_id # m.songs[j].music_id
    /\ \A j \in 1..Len(m.cands) :
          Cardinality({i \in 1..Len(m.songs) : m.songs[i].audio = m.cands[j].audio}) = 1

\* exactly one original of call m found a candidate with its hash
OneHashMatch(m) ==
    Cardinality({i \in 1..Len(m.fps) : \E j \in 1..Len(m.cands) : m.hashes[i][j]}) = 1

\* C34: the output of match() is a permutation of its input: for two
\* originals and two candidates that can be told apart, every candidate's
\* audio is in exactly one output entry and the output entries carry
\* distinct musicIds, also when only one original finds a hash match.
C34_MatchPermutes ==
    \A r \in Runs :
        LET m == obs[r].match
        IN  (m.called /\ Distinguishable(m) /\ BothAudible(m)) => Permutes(m)

\* one original matched by hash the candidate that carried the other
\* musicId, and the output holds that candidate's audio under both musicIds
C34_Witness ==
    LET m == obs["r0"].match
    IN  /\ m.called /\ Distinguishable(m) /\ BothAudible(m)
        /\ OneHashMatch(m)
        /\ m.fps[1].fp.hash # m.fps[2].fp.hash
        /\ m.songs[1].audio = m.songs[2].audio
        /\ m.songs[1].music_id # m.songs[2].music_id

\* ------------------------------------------------------------------------
\* The quick recheck against a service that may answer short
\* ------------------------------------------------------------------------

\* the world of RetryWorld in which the status check of the quick recheck
\* may answer with fewer songs than were asked for
QuickWorld == [nsfw |-> {"safe"}, fetch |-> {"full"},
               faults |-> {"pipeline", "generate", "quick", "complete", "short"}]

NextQuick ==
    \/ PostRetry("r1")
    \/ RetryStep("r1", QuickWorld)
    \/ RunStep("r1", QuickWorld)
    \/ Provider("r1", 0)
    \/ Alarm("r0")
    \/ Alarm("r1")

SpecQuick == InitRetry /\ [][NextQuick]_vars

\* decideSongsStrategy has returned needsPolling = false to run r: the run
\* took a reuse path and is at 'complete workflow'
ReuseReturned(r) == loc[r].reused # "" /\ pc[r] = "complete"

\* C35: whenever decide() returns needsPolling = false, the songs it returns
\* are exactly two entries, each with status >= 4 and audio, whatever the
\* status check answered, answers with fewer than two songs included.
C35_ReusedSongsAreTwoComplete ==
    \A r \in RetryRuns :
        ReuseReturned(r) =>
           /\ Len(loc[r].songs) = 2
           /\ \A i \in 1..Len(loc[r].songs) : CompleteWithAudio(loc[r].songs[i])

\* the quick recheck was answered with fewer than two songs and the run
\* goes on to complete with them, saved as its songs
C35_Witness ==
    /\ ReuseReturned("r1")
    /\ loc["r1"].reused = "quick"
    /\ obs["r1"].quick = "complete"
    /\ Len(loc["r1"].songs) < 2
    /\ store["r1"].songs = loc["r1"].songs

\* ------------------------------------------------------------------------
\* Polling a provider whose answers may lose an audio URL
\* ------------------------------------------------------------------------

\* song k is reported without the audio URL it had
ProviderWithdraw(p, k) ==
    IF p.live /\ p.songs[k].audio # NoUrl THEN {[p EXCEPT !.songs[k].audio = NoUrl]} ELSE {}

\* the provider stops reporting the audio URL of one song of generation g
Withdraw(g) ==
    /\ Watched(g)
    /\ \E k \in 1..2 : \E q \in ProviderWithdraw(prov[g], k) : prov' = [prov EXCEPT ![g] = q]
    /\ UNCHANGED <<pc, att, loc, store, toFlush, d1, playlists, kv, mp3, png, called, obs>>

\* every step succeeds unless the songs are not ready; every fetch delivers
WithdrawWorld == [nsfw |-> {"safe"}, fetch |-> {"full"}, faults |-> {}]

NextWithdraw ==
    \/ PostSmol("r0", "T", "")
    \/ FreshStep("r0", WithdrawWorld)
    \/ Provider("r0", 0)
    \/ Withdraw("r0")
    \/ Alarm("r0")

SpecWithdraw == Init /\ [][NextWithdraw]_vars

\* pollUntilComplete has returned to run r: the run generated its songs and
\* is at 'complete workflow'
PollReturned(r) == loc[r].reused = "" /\ pc[r] = "complete"

\* C36: whenever pollUntilComplete() returns, by the fast path or by the
\* completion phase, every returned song has status >= 4 and audio,
\* whatever the provider answered.
C36_PolledSongsComplete ==
    \A r \in Runs :
        PollReturned(r) => \A i \in 1..Len(loc[r].songs) : CompleteWithAudio(loc[r].songs[i])

\* the completion poll passed with two songs of status >= 4 of which one
\* has no audio, and the run goes on to complete with them
C36_Witness ==
    /\ PollReturned("r0")
    /\ obs["r0"].mode = "complete" /\ obs["r0"].outcome = "pass"
    /\ Len(loc["r0"].songs) = 2
    /\ \A i \in 1..2 : loc["r0"].songs[i].status >= 4
    /\ \E i \in 1..2 : loc["r0"].songs[i].audio = NoUrl
    /\ \E i \in 1..2 : loc["r0"].songs[i].audio # NoUrl

\* ------------------------------------------------------------------------
\* The persisted fingerprint attempt counters
\* ------------------------------------------------------------------------

\* the audio host may deliver too little data, or none at all
StarvingWorld == [nsfw |-> {"safe"}, fetch |-> {"empty", "short", "full"}, faults |-> {}]

NextStarving ==
    \/ PostSmol("r0", "T", "")
    \/ FreshStep("r0", StarvingWorld)
    \/ Provider("r0", StreamingUrlChanges("r0"))
    \/ Alarm("r0")

SpecStarving == Init /\ [][NextStarving]_vars

\* the provider reports for musicId id the URL that run r last recorded
UrlUnchanged(r, id) ==
    /\ prov[r].live
    /\ \E i \in 1..Len(prov[r].songs) :
          /\ prov[r].songs[i].music_id = id
          /\ prov[r].songs[i].audio # NoUrl
          /\ prov[r].songs[i].audio = store[r].last_known_urls[id]

\* C37: the persisted fingerprint attempt counter of each musicId is at most
\* MAX_FINGERPRINT_ATTEMPTS - 1, and a musicId with a recorded original
\* fingerprint and an unchanged URL has no attempt counter.
C37_AttemptCounters ==
    \A r \in Runs : \A id \in MusicIds :
        /\ store[r].fingerprint_attempts[id] <= MAX_FINGERPRINT_ATTEMPTS - 1
        /\ (HasKey(store[r].original_fingerprints, id) /\ UrlUnchanged(r, id)) =>
              store[r].fingerprint_attempts[id] = 0

\* the last attempt to fingerprint a changed URL found no data: the URL is
\* recorded as known and the counter of the failed attempts stays
C37_Witness ==
    /\ HasKey(store["r0"].original_fingerprints, "A")
    /\ UrlUnchanged("r0", "A")
    /\ store["r0"].fingerprint_attempts["A"] = MAX_FINGERPRINT_ATTEMPTS - 1
    /\ obs["r0"].detect = "ok"

\* ------------------------------------------------------------------------
\* What is stored in SMOL_KV under a run's id (checked under Spec)
\* ------------------------------------------------------------------------

\* run r has been through a 'complete workflow' attempt that got as far as
\* the KV put
CompleteWrote(r) == pc[r] = "done" \/ (pc[r] \in {"complete", "failed"} /\ d1[r] # <<>>)

\* C38: whenever a key/value artifact exists under a run's id, it is the
\* full aggregate written by that run's 'complete workflow' step; no partial
\* value is stored under the id while the run is in progress or after it
\* failed.
C38_KvHoldsAggregateOnly ==
    \A r \in Runs :
        kv[r] # <<>> =>
           /\ kv[r][1].kind = "full"
           /\ kv[r][1] = Aggregate(r)
           /\ CompleteWrote(r)

\* the run failed while polling, after 'save generated lyrics' had put the
\* lyrics alone under its id
C38_Witness ==
    /\ pc["r0"] = "failed"
    /\ called["r0"].status > 0
    /\ d1["r0"] = <<>>
    /\ kv["r0"] # <<>>
    /\ kv["r0"][1] = [kind |-> "lyrics", steps |-> LyricsBlob(loc["r0"].lyrics)]

\* ------------------------------------------------------------------------
\* The URLs a poll persists (checked under SpecPoll)
\* ------------------------------------------------------------------------

\* the last poll of run r ran swap detection to its end and wrote the
\* snapshot that the step store still holds
DetectedAndSaved(r) ==
    /\ obs[r].polled /\ obs[r].detect = "ok" /\ obs[r].snapshot
    /\ obs[r].songs # <<>>
    /\ store[r].songs = obs[r].songs

\* C39: after every poll in which swap detection completes without error,
\* for each song with audio in the snapshot the poll persisted, the
\* persisted lastKnownUrls entry of its musicId is that song's audio URL,
\* whether or not the poll corrected a swap.
C39_SnapshotUrlsKnown ==
    \A r \in Runs :
        DetectedAndSaved(r) =>
           \A i \in 1..Len(store[r].songs) :
              store[r].songs[i].audio # NoUrl =>
                 store[r].last_known_urls[store[r].songs[i].music_id] = store[r].songs[i].audio

\* a poll corrected a swap: its snapshot differs from the provider's answer
\* and holds both songs with audio
C39_Witness ==
    /\ DetectedAndSaved("r0")
    /\ obs["r0"].match.called /\ obs["r0"].match.swapped
    /\ store["r0"].songs # obs["r0"].match.cands
    /\ Len(store["r0"].songs) = 2
    /\ \A i \in 1..Len(store["r0"].songs) : store["r0"].songs[i].audio # NoUrl

\* ------------------------------------------------------------------------
\* The media blobs of a completed run (checked under Spec)
\* ------------------------------------------------------------------------

\* the blob under the musicId of every song with audio in the list is the
\* content of that song's audio URL
BlobsFollow(songs) ==
    \A i \in 1..Len(songs) :
        songs[i].audio # NoUrl => mp3[songs[i].music_id] = Content(songs[i].audio)

\* C40: when a run completes, the media blob stored under each final
\* musicId holds the audio that the final record assigns to that musicId,
\* also when a retry run corrected the order of reused songs against the
\* prior run's fingerprints.
C40_BlobsFollowRecord ==
    \A r \in Runs : (pc[r] = "done" /\ d1[r] # <<>>) => BlobsFollow(loc[r].songs)

\* the run completed with a song whose blob was stored by an earlier
\* snapshot, when the musicId carried the other audio, and was kept
C40_Witness ==
    /\ pc["r0"] = "done" /\ d1["r0"] # <<>>
    /\ Len(loc["r0"].songs) = 2
    /\ \E i \in 1..2 :
          /\ CompleteWithAudio(loc["r0"].songs[i])
          /\ mp3[loc["r0"].songs[i].music_id] # ""
          /\ mp3[loc["r0"].songs[i].music_id] # Content(loc["r0"].songs[i].audio)

====
